---- MODULE Spec2Model ----
(***************************************************************************)
(* Model of the HealthPulse analytics engine (backend/app): the recovery   *)
(* score of FitnessPredictor, the progression advisor, the nutrition       *)
(* adherence score and the dashboard aggregator.                           *)
(*                                                                         *)
(* Python floats are modelled as exact rationals <<numerator, denominator>>*)
(* with a positive denominator, in lowest terms.  Optional values          *)
(* (float | None) are modelled as sequences: <<>> is None, <<v>> is v.     *)
(***************************************************************************)
EXTENDS Integers, Sequences, FiniteSets, TLC

VARIABLES
    rec_in,      \* arguments of one calculate_recovery_score call
    rec_out,     \* its outcome: NotCalled, a raised exception or a RecoveryResult
    prog_in,     \* arguments of one _compute_suggestion call: sessions, category
    suggestion,  \* its outcome: NotCalled or the returned suggestion dict
    adh_in,      \* arguments of one _calculate_adherence_score call
    adh_out,     \* its outcome: NotCalled or the returned score
    dash_pc,            \* position of one get_dashboard call
    computed,           \* what each section computation did: raised or returned
    enhanced_recovery,  \* locals of get_dashboard (None until assigned)
    readiness,
    progress,
    weekly,
    response,           \* the DashboardResponse once returned
    nut_in,      \* arguments of one calculate_nutrition_score call
    nut_out,     \* its outcome: NotCalled or the NutritionScoreBreakdown
    tgt_in,      \* arguments of one calculate_targets call
    tgt_out,     \* its outcome: NotCalled or the NutritionTargets
    ready_in,    \* arguments of one calculate_readiness_score call
    ready_out,   \* its outcome: NotCalled or the ReadinessResult
    well_in,    \* arguments of one calculate_wellness_score call
    well_out,   \* its outcome: NotCalled or the WellnessResult
    wapi_pc,    \* position of one wellness request: "service", "api", "done"
    wapi_req,    \* the endpoint called and the rows the database returns
    wapi_result,    \* what PredictionService returned to the endpoint
    wapi_response,   \* outcome of the endpoint: a response body or a raised exception
    corr_in,    \* metrics.data of one analyze_correlations call: rows ordered by timestamp
    corr_kept,    \* its local correlations after the loops, before the sort
    corr_out,   \* its outcome: NotCalled or the returned list
    wc_in,    \* the DailyMetrics of one WellnessCalculator.calculate call
    wc_out,   \* its outcome: NotCalled or the WellnessBreakdown
    predictor,    \* the FitnessPredictor instance of ml_models.py
    _calculator,    \* the NutritionCalculator instance of nutrition_calculator.py, None until first use
    calls,   \* the calls made on the two instances: method, arguments, result
    session_state,    \* st.session_state of healthpulse_app.py: the keys present and their values
    current_hour,    \* datetime.now().hour
    runs,   \* script runs of main() so far, each starting with init_theme()
    invite_codes,    \* the rows of table invite_codes, in order of insertion
    partnerships,    \* the rows of table partnerships, in order of insertion
    created_from,    \* for each partnerships row, the invite code its request carried
    requests,    \* the social requests under way: caller, target, position, row read
    started,    \* requests received so far
    now,    \* datetime.now(timezone.utc), in days
    social_response,   \* the last response of a social endpoint, None before the first
    user_training_plans,    \* the rows of table user_training_plans, in order of insertion
    plan_response,    \* the last response of activate_plan or deactivate_plan, None before the first
    plan_requests,   \* activate_plan and deactivate_plan requests served so far
    personal_records,    \* the rows of table personal_records, in order of insertion
    log_call,    \* the last log_sets call: user, sets and the records it inserted; None before the first
    log_calls    \* log_sets calls made so far

recVars == <<rec_in, rec_out>>
progVars == <<prog_in, suggestion>>
adhVars == <<adh_in, adh_out>>
dashVars == <<dash_pc, computed, enhanced_recovery, readiness, progress, weekly, response>>
nutVars == <<nut_in, nut_out>>
tgtVars == <<tgt_in, tgt_out>>
readyVars == <<ready_in, ready_out>>
wellVars == <<well_in, well_out>>
wapiVars == <<wapi_pc, wapi_req, wapi_result, wapi_response>>
corrVars == <<corr_in, corr_kept, corr_out>>
wcVars == <<wc_in, wc_out>>
singletonVars == <<predictor, _calculator, calls>>
themeVars == <<session_state, current_hour, runs>>
socialVars == <<invite_codes, partnerships, created_from, requests, started, now, social_response>>
planVars == <<user_training_plans, plan_response, plan_requests>>
logVars == <<personal_records, log_call, log_calls>>
calcVars == <<nutVars, tgtVars, readyVars, wellVars, wapiVars, corrVars, wcVars, singletonVars, themeVars, socialVars, planVars, logVars>>
vars == <<rec_in, rec_out, prog_in, suggestion, adh_in, adh_out,
          dash_pc, computed, enhanced_recovery, readiness, progress, weekly, response,
          calcVars>>

NotCalled == [called |-> FALSE]

\* ------------------------------------------------------------------------
\* Optional values and exceptions
\* ------------------------------------------------------------------------
None == <<>>
Some(v) == <<v>>
IsNone(o) == o = <<>>
Val(o) == o[1]

Raise(e) == [called |-> TRUE, exc |-> TRUE, error |-> e]
Return(v) == [called |-> TRUE, exc |-> FALSE, value |-> v]

\* ------------------------------------------------------------------------
\* Exact rational arithmetic standing for float arithmetic
\* ------------------------------------------------------------------------
Abs(x) == IF x < 0 THEN -x ELSE x

RECURSIVE GCD(_, _)
GCD(a, b) == IF b = 0 THEN a ELSE GCD(b, a % b)

Rat(n, d) ==
    LET g == GCD(Abs(n), Abs(d))
        s == IF d < 0 THEN -1 ELSE 1
    IN  <<(s * n) \div g, (s * d) \div g>>

I(n) == <<n, 1>>
RAdd(a, b) == Rat(a[1] * b[2] + b[1] * a[2], a[2] * b[2])
RSub(a, b) == Rat(a[1] * b[2] - b[1] * a[2], a[2] * b[2])
RMul(a, b) == Rat(a[1] * b[1], a[2] * b[2])
RDiv(a, b) == Rat(a[1] * b[2], a[2] * b[1])
RLe(a, b) == a[1] * b[2] <= b[1] * a[2]
RLt(a, b) == a[1] * b[2] < b[1] * a[2]
RMax(a, b) == IF RLt(a, b) THEN b ELSE a
RMin(a, b) == IF RLt(b, a) THEN b ELSE a
RAbs(a) == <<Abs(a[1]), a[2]>>

\* Python round(x, ndigits) with scale = 10^ndigits: nearest, ties to even.
Round(x, scale) ==
    LET n == x[1] * scale
        d == x[2]
        q == n \div d
        r == n - q * d
        k == IF 2 * r < d THEN q
             ELSE IF 2 * r > d THEN q + 1
             ELSE IF q % 2 = 0 THEN q ELSE q + 1
    IN  Rat(k, scale)

\* round(x, ndigits) of a double that was computed with rounding errors: when
\* the exact value is a decimal tie the double lies on either side of it, so
\* the tie is resolved up or down (tie_up).
RoundInexact(x, scale, tie_up) ==
    LET n == x[1] * scale
        d == x[2]
        q == n \div d
        r == n - q * d
        k == IF 2 * r < d THEN q
             ELSE IF 2 * r > d THEN q + 1
             ELSE IF tie_up THEN q + 1 ELSE q
    IN  Rat(k, scale)

\* ------------------------------------------------------------------------
\* FitnessPredictor.calculate_recovery_score   (backend/app/ml/ml_models.py)
\* ------------------------------------------------------------------------
\* Weights in hundredths.
RECOVERY_WEIGHTS ==
    [sleep_hours |-> 25, sleep_quality |-> 20, hrv |-> 20,
     resting_hr |-> 15, training_load_7d |-> 10, stress |-> 10]

SumRecoveryWeights ==
    RECOVERY_WEIGHTS.sleep_hours + RECOVERY_WEIGHTS.sleep_quality
    + RECOVERY_WEIGHTS.hrv + RECOVERY_WEIGHTS.resting_hr
    + RECOVERY_WEIGHTS.training_load_7d + RECOVERY_WEIGHTS.stress

W(key) == <<RECOVERY_WEIGHTS[key], 100>>

EmptyAcc == [factors |-> <<>>, weights_used |-> I(0), weighted_score |-> I(0)]

\* Variant that forgets weights_used += w.
AddFactorNoWeight(acc, name, key, value, score, impact) ==
    [factors |-> acc.factors @@
                 (name :> [value |-> value, score |-> score, impact |-> impact]),
     weights_used |-> acc.weights_used,
     weighted_score |-> RAdd(acc.weighted_score, RMul(score, W(key)))]

\* factors[name] = {...}; weighted_score += score * w; weights_used += w
AddFactor(acc, name, key, value, score, impact) ==
    [factors |-> acc.factors @@
                 (name :> [value |-> value, score |-> score, impact |-> impact]),
     weights_used |-> RAdd(acc.weights_used, W(key)),
     weighted_score |-> RAdd(acc.weighted_score, RMul(score, W(key)))]

SleepHoursScore(sleep_hours) ==
    IF 7 <= sleep_hours /\ sleep_hours <= 9 THEN I(100)
    ELSE IF sleep_hours < 7
         THEN RMax(I(0), RMul(Rat(sleep_hours, 7), I(100)))
         ELSE RMax(I(70), RSub(I(100), I((sleep_hours - 9) * 10)))

\* Variant without the upper clamp min(100, ...).
HrvScoreUnclamped(hrv, hrv_baseline) ==
    RMax(I(0), RMul(Rat(hrv, hrv_baseline), I(80)))

HrvScore(hrv, hrv_baseline) ==
    RMin(I(100), RMax(I(0), RMul(Rat(hrv, hrv_baseline), I(80))))

RhrScore(resting_hr, rhr_baseline) ==
    RMin(I(100), RMax(I(0), RMul(Rat(rhr_baseline, resting_hr), I(80))))

LoadScore(training_load_7d) ==
    IF 200 <= training_load_7d /\ training_load_7d <= 500 THEN I(90)
    ELSE IF training_load_7d < 200
         THEN RAdd(I(70), RMul(Rat(training_load_7d, 200), I(20)))
         ELSE RMax(I(30), RSub(I(90), RMul(I(training_load_7d - 500), Rat(12, 100))))

StressScore(stress_level) ==
    RMax(I(0), RMul(Rat(10 - stress_level, 10), I(100)))

RecoveryStatus(score) ==
    IF RLe(I(80), score) THEN "recovered"
    ELSE IF RLe(I(50), score) THEN "moderate"
    ELSE "fatigued"

Has(factors, name) == name \in DOMAIN factors

_generate_recovery_recommendations(factors, score) ==
    LET r1 == IF Has(factors, "sleep_hours") /\ RLt(factors["sleep_hours"].score, I(70))
              THEN <<"sleep_duration_tip">> ELSE <<>>
        r2 == IF Has(factors, "sleep_quality") /\ RLt(factors["sleep_quality"].score, I(70))
              THEN <<"sleep_quality_tip">> ELSE <<>>
        r3 == IF Has(factors, "hrv") /\ factors["hrv"].impact = "negative"
              THEN <<"hrv_below_baseline">> ELSE <<>>
        r4 == IF Has(factors, "resting_hr") /\ factors["resting_hr"].impact = "negative"
              THEN <<"elevated_resting_hr">> ELSE <<>>
        r5 == IF Has(factors, "training_load") /\ factors["training_load"].value > 500
              THEN <<"recovery_day">> ELSE <<>>
        r6 == IF Has(factors, "stress") /\ factors["stress"].value > 6
              THEN <<"high_stress">> ELSE <<>>
        recommendations == r1 \o r2 \o r3 \o r4 \o r5 \o r6
    IN  IF RLe(I(80), score) /\ recommendations = <<>> THEN <<"great_recovery">>
        ELSE IF recommendations = <<>> THEN <<"maintain_habits">>
        ELSE recommendations

calculate_recovery_score(sleep_hours, sleep_quality, hrv, resting_hr, training_load_7d, stress_level, hrv_baseline, rhr_baseline, tie_up) ==
    IF ~IsNone(hrv) /\ Val(hrv) > 0 /\ hrv_baseline = 0
    THEN Raise("ZeroDivisionError")      \* hrv / hrv_baseline
    ELSE
    LET a1 == IF sleep_hours > 0
              THEN LET s == SleepHoursScore(sleep_hours)
                   IN  AddFactor(EmptyAcc, "sleep_hours", "sleep_hours", sleep_hours, s,
                                 IF RLt(I(70), s) THEN "positive" ELSE "negative")
              ELSE EmptyAcc
        a2 == IF sleep_quality > 0
              THEN AddFactor(a1, "sleep_quality", "sleep_quality", sleep_quality,
                             I(sleep_quality),
                             IF sleep_quality > 70 THEN "positive" ELSE "negative")
              ELSE a1
        a3 == IF ~IsNone(hrv) /\ Val(hrv) > 0
              THEN AddFactor(a2, "hrv", "hrv", Val(hrv), HrvScore(Val(hrv), hrv_baseline),
                             IF Val(hrv) >= hrv_baseline THEN "positive" ELSE "negative")
              ELSE a2
        a4 == IF ~IsNone(resting_hr) /\ Val(resting_hr) > 0
              THEN AddFactor(a3, "resting_hr", "resting_hr", Val(resting_hr),
                             RhrScore(Val(resting_hr), rhr_baseline),
                             IF Val(resting_hr) <= rhr_baseline
                             THEN "positive" ELSE "negative")
              ELSE a3
        a5 == IF training_load_7d >= 0
              THEN AddFactor(a4, "training_load", "training_load_7d", training_load_7d,
                             LoadScore(training_load_7d),
                             IF 200 <= training_load_7d /\ training_load_7d <= 500
                             THEN "positive" ELSE "negative")
              ELSE a4
        a6 == AddFactor(a5, "stress", "stress", stress_level, StressScore(stress_level),
                        IF stress_level <= 4 THEN "positive" ELSE "negative")
        score == IF RLt(I(0), a6.weights_used)
                 THEN RDiv(a6.weighted_score, a6.weights_used)
                 ELSE I(50)
        confidence == RMin(I(1), RDiv(a6.weights_used, <<SumRecoveryWeights, 100>>))
    IN  Return([score |-> RoundInexact(score, 10, tie_up),
                confidence |-> RoundInexact(confidence, 100, tie_up),
                status |-> RecoveryStatus(score),
                contributing_factors |-> a6.factors,
                recommendations |-> _generate_recovery_recommendations(a6.factors, score)])

\* Input grid of the recovery score.
SleepHoursGrid == {0, 4, 6, 8, 10, 12}
SleepQualityGrid == {0, 10, 70, 90, 100}
HrvGrid == {None, Some(40), Some(60), Some(100)}
RestingHrGrid == {None, Some(0), Some(48), Some(75)}
TrainingLoadGrid == {0, 100, 300, 600, 1000}
StressGrid == {1, 2, 5, 10}
HrvBaselineGrid == {0, 50}
RhrBaselineGrid == {0, 60}

RecoveryInputs ==
    [sleep_hours : SleepHoursGrid, sleep_quality : SleepQualityGrid,
     hrv : HrvGrid, resting_hr : RestingHrGrid,
     training_load_7d : TrainingLoadGrid, stress_level : StressGrid,
     hrv_baseline : HrvBaselineGrid, rhr_baseline : RhrBaselineGrid]

IdleRecovery ==
    /\ rec_in = [sleep_hours |-> 7, sleep_quality |-> 70, hrv |-> None,
                 resting_hr |-> None, training_load_7d |-> 0, stress_level |-> 5,
                 hrv_baseline |-> 50, rhr_baseline |-> 60]
    /\ rec_out = NotCalled

IdleProgression ==
    /\ prog_in = [sessions |-> <<>>, category |-> None]
    /\ suggestion = NotCalled

IdleAdherence ==
    /\ adh_in = [consumed |-> 0, target |-> 0, name |-> "calories"]
    /\ adh_out = NotCalled

IdleDashboard ==
    /\ dash_pc = "idle"
    /\ computed = <<>>
    /\ enhanced_recovery = None
    /\ readiness = None
    /\ progress = None
    /\ weekly = None
    /\ response = None

IdleNutritionScore ==
    /\ nut_in = [calories_consumed |-> 0, calorie_target |-> 0, protein_consumed |-> 0,
                 protein_target |-> 0, carbs_consumed |-> 0, carbs_target |-> 0,
                 fat_consumed |-> 0, fat_target |-> 0, days_logged_this_week |-> 7]
    /\ nut_out = NotCalled

IdleTargets ==
    /\ tgt_in = [weight_kg |-> I(70), height_cm |-> I(175), age |-> 30, gender |-> "male",
                 activity_level |-> "moderate", goal_type |-> "maintain",
                 activity_adjustment |-> I(0), custom_calorie_target |-> None,
                 custom_protein_g |-> None, custom_carbs_g |-> None, custom_fat_g |-> None]
    /\ tgt_out = NotCalled

IdleReadiness ==
    /\ ready_in = [recovery_score |-> I(70), sleep_quality |-> I(70),
                   days_since_hard_workout |-> 2, energy_level |-> I(7), muscle_soreness |-> I(3)]
    /\ ready_out = NotCalled

IdleWellnessScore ==
    /\ well_in = [sleep_score |-> I(70), activity_score |-> I(70), recovery_score |-> I(70),
                  nutrition_score |-> I(70), stress_score |-> I(70), mood_score |-> I(70),
                  baseline_wellness |-> I(70), previous_scores |-> None]
    /\ well_out = NotCalled

IdleWellnessApi ==
    /\ wapi_pc = "idle"
    /\ wapi_req = [endpoint |-> "none"]
    /\ wapi_result = NotCalled
    /\ wapi_response = NotCalled

IdleCorrelations ==
    /\ corr_in = <<>>
    /\ corr_kept = <<>>
    /\ corr_out = NotCalled

IdleWellnessCalculator ==
    /\ wc_in = [f \in {"steps"} |-> None]
    /\ wc_out = NotCalled

IdleSingletons ==
    /\ predictor = None
    /\ _calculator = None
    /\ calls = <<>>

IdleTheme ==
    /\ session_state = <<>>
    /\ current_hour = 0
    /\ runs = 0

IdleSocial ==
    /\ invite_codes = <<>>
    /\ partnerships = <<>>
    /\ created_from = <<>>
    /\ requests = <<>>
    /\ started = 0
    /\ now = 0
    /\ social_response = None

IdleTrainingPlans ==
    /\ user_training_plans = <<>>
    /\ plan_response = None
    /\ plan_requests = 0

IdleLogSets ==
    /\ personal_records = <<>>
    /\ log_call = None
    /\ log_calls = 0

\* Every calculator call but the named one is not under way.
IdleCalculatorsExcept(call) ==
    /\ IF call = "calculate_nutrition_score" THEN TRUE ELSE IdleNutritionScore
    /\ IF call = "calculate_targets" THEN TRUE ELSE IdleTargets
    /\ IF call = "calculate_readiness_score" THEN TRUE ELSE IdleReadiness
    /\ IF call = "calculate_wellness_score" THEN TRUE ELSE IdleWellnessScore
    /\ IF call = "wellness_api" THEN TRUE ELSE IdleWellnessApi
    /\ IF call = "analyze_correlations" THEN TRUE ELSE IdleCorrelations
    /\ IF call = "calculate" THEN TRUE ELSE IdleWellnessCalculator
    /\ IF call = "singletons" THEN TRUE ELSE IdleSingletons
    /\ IF call = "init_theme" THEN TRUE ELSE IdleTheme
    /\ IF call = "social" THEN TRUE ELSE IdleSocial
    /\ IF call = "training_plans" THEN TRUE ELSE IdleTrainingPlans
    /\ IF call = "log_sets" THEN TRUE ELSE IdleLogSets

IdleCalculators == IdleCalculatorsExcept("none")

\* A step of the named calculator call leaves every other call alone.
OtherCalculatorsUnchanged(call) ==
    /\ IF call = "calculate_nutrition_score" THEN TRUE ELSE UNCHANGED nutVars
    /\ IF call = "calculate_targets" THEN TRUE ELSE UNCHANGED tgtVars
    /\ IF call = "calculate_readiness_score" THEN TRUE ELSE UNCHANGED readyVars
    /\ IF call = "calculate_wellness_score" THEN TRUE ELSE UNCHANGED wellVars
    /\ IF call = "wellness_api" THEN TRUE ELSE UNCHANGED wapiVars
    /\ IF call = "analyze_correlations" THEN TRUE ELSE UNCHANGED corrVars
    /\ IF call = "calculate" THEN TRUE ELSE UNCHANGED wcVars
    /\ IF call = "singletons" THEN TRUE ELSE UNCHANGED singletonVars
    /\ IF call = "init_theme" THEN TRUE ELSE UNCHANGED themeVars
    /\ IF call = "social" THEN TRUE ELSE UNCHANGED socialVars
    /\ IF call = "training_plans" THEN TRUE ELSE UNCHANGED planVars
    /\ IF call = "log_sets" THEN TRUE ELSE UNCHANGED logVars

InitRecovery ==
    /\ rec_in \in RecoveryInputs
    /\ rec_out = NotCalled
    /\ IdleProgression
    /\ IdleAdherence
    /\ IdleDashboard
    /\ IdleCalculators

CalculateRecovery ==
    /\ rec_out = NotCalled
    /\ \E tie_up \in BOOLEAN :
          rec_out' = calculate_recovery_score(
                        rec_in.sleep_hours, rec_in.sleep_quality, rec_in.hrv,
                        rec_in.resting_hr, rec_in.training_load_7d, rec_in.stress_level,
                        rec_in.hrv_baseline, rec_in.rhr_baseline, tie_up)
    /\ UNCHANGED <<rec_in, progVars, adhVars, dashVars, calcVars>>

NextRecovery == CalculateRecovery

SpecRecovery == InitRecovery /\ [][NextRecovery]_vars

\* ------------------------------------------------------------------------
\* Progression advisor   (backend/app/services/progression_service.py)
\* Weights are rationals in kg; a set is [weight, reps, rpe] with rpe
\* optional; a session is [exercises |-> <<[name, sets], ...>>].
\* ------------------------------------------------------------------------
UPPER_INCREMENT == Rat(5, 2)
LOWER_INCREMENT == I(5)
DELOAD_FACTOR == Rat(9, 10)
LOWER_CATEGORIES == {"legs"}

\* str.lower() on the category and gender strings.
Lower(str) ==
    CASE str = "Legs" -> "legs"
      [] str = "LEGS" -> "legs"
      [] str = "Chest" -> "chest"
      [] str = "Male" -> "male"
      [] str = "MALE" -> "male"
      [] OTHER -> str

RECURSIVE MaxWeightFrom(_, _)
\* max(s.get("weight", 0) for s in sets) over sets[i..]; default when empty.
MaxWeightFrom(sets, default) ==
    IF sets = <<>> THEN default
    ELSE LET rest == MaxWeightFrom(Tail(sets), default)
         IN  IF Len(sets) = 1 THEN Head(sets).weight
             ELSE RMax(Head(sets).weight, rest)

\* Variant that treats a set at exactly half the maximum as a warm-up.
_get_working_setsAboveHalf(sets) ==
    IF sets = <<>> THEN <<>>
    ELSE LET max_weight == MaxWeightFrom(sets, I(0))
         IN  IF RLe(max_weight, I(0)) THEN sets
             ELSE LET threshold == RMul(max_weight, Rat(1, 2))
                  IN  SelectSeq(sets, LAMBDA st : RLt(threshold, st.weight))

_get_working_sets(sets) ==
    IF sets = <<>> THEN <<>>
    ELSE LET max_weight == MaxWeightFrom(sets, I(0))
         IN  IF RLe(max_weight, I(0)) THEN sets
             ELSE LET threshold == RMul(max_weight, Rat(1, 2))
                  IN  SelectSeq(sets, LAMBDA st : RLe(threshold, st.weight))

\* Variant that also stops the plateau check when an earlier session was lighter.
CheckDeloadStrict(exercise_sessions, current_max) ==
    IF Len(exercise_sessions) < 2 THEN FALSE
    ELSE \A i \in 2..(IF Len(exercise_sessions) < 3 THEN Len(exercise_sessions) ELSE 3) :
            LET working == _get_working_sets(exercise_sessions[i])
            IN  /\ working # <<>>
                /\ MaxWeightFrom(working, I(0)) = current_max

_check_deload(exercise_sessions, current_max) ==
    IF Len(exercise_sessions) < 2 THEN FALSE
    ELSE \A i \in 2..(IF Len(exercise_sessions) < 3 THEN Len(exercise_sessions) ELSE 3) :
            LET working == _get_working_sets(exercise_sessions[i])
            IN  /\ working # <<>>
                /\ ~RLt(current_max, MaxWeightFrom(working, I(0)))

RECURSIVE FindExercise(_, _)
\* The sets of the first entry of exercises named exercise_name, else <<>>.
FindExercise(exercises, exercise_name) ==
    IF exercises = <<>> THEN <<>>
    ELSE IF Head(exercises).name = exercise_name THEN Head(exercises).sets
    ELSE FindExercise(Tail(exercises), exercise_name)

ExerciseSessions(exercise_name, sessions) ==
    SelectSeq([i \in 1..Len(sessions) |-> FindExercise(sessions[i].exercises, exercise_name)],
              LAMBDA sets : sets # <<>>)

RECURSIVE FirstRepsAt(_, _)
\* next((s.reps for s in working_sets if s.weight == last_weight), 0)
FirstRepsAt(working_sets, last_weight) ==
    IF working_sets = <<>> THEN 0
    ELSE IF Head(working_sets).weight = last_weight THEN Head(working_sets).reps
    ELSE FirstRepsAt(Tail(working_sets), last_weight)

RECURSIVE SumSeq(_)
SumSeq(q) == IF q = <<>> THEN 0 ELSE Head(q) + SumSeq(Tail(q))

\* Average RPE over the working sets that track it, 7.0 if none does.
AvgRpe(working_sets) ==
    LET tracked == SelectSeq(working_sets, LAMBDA st : ~IsNone(st.rpe))
        rpe_values == [i \in 1..Len(tracked) |-> Val(tracked[i].rpe)]
    IN  IF rpe_values # <<>> THEN Rat(SumSeq(rpe_values), Len(rpe_values)) ELSE I(7)

\* Variant that uses the upper-body increment for every category.
IncrementUpperOnly(category) == UPPER_INCREMENT

Increment(category) ==
    LET is_lower == Lower(IF IsNone(category) THEN "" ELSE Val(category)) \in LOWER_CATEGORIES
    IN  IF is_lower THEN LOWER_INCREMENT ELSE UPPER_INCREMENT

\* round(last_weight * DELOAD_FACTOR / 2.5) * 2.5
Deloaded(last_weight) ==
    RMul(Round(RDiv(RMul(last_weight, DELOAD_FACTOR), Rat(5, 2)), 1), Rat(5, 2))

NewSuggestion(reason) ==
    [suggested_weight_kg |-> None, last_weight_kg |-> None, last_reps |-> None,
     last_rpe |-> None, status |-> "new", reason |-> reason]

_compute_suggestion(exercise_name, sessions, category) ==
    LET exercise_sessions == ExerciseSessions(exercise_name, sessions)
    IN
    IF exercise_sessions = <<>> THEN NewSuggestion("No previous data")
    ELSE
    LET latest_sets == exercise_sessions[1]
        working_sets == _get_working_sets(latest_sets)
    IN
    IF working_sets = <<>> THEN NewSuggestion("No working sets found")
    ELSE
    LET last_weight == MaxWeightFrom(working_sets, I(0))
        last_reps == FirstRepsAt(working_sets, last_weight)
        avg_rpe == AvgRpe(working_sets)
        increment == Increment(category)
        needs_deload == _check_deload(exercise_sessions, last_weight)
        base == [last_weight_kg |-> last_weight, last_reps |-> Some(last_reps),
                 last_rpe |-> Round(avg_rpe, 10)]
    IN
    IF needs_deload /\ RLe(I(9), avg_rpe)
    THEN base @@ [suggested_weight_kg |-> Deloaded(last_weight),
                  status |-> "deload", reason |-> "-10% deload"]
    ELSE IF RLe(avg_rpe, I(8)) /\ last_reps >= 1
    THEN base @@ [suggested_weight_kg |-> RAdd(last_weight, increment),
                  status |-> "increase",
                  reason |-> IF increment = LOWER_INCREMENT
                             THEN "lower body progression"
                             ELSE "upper body progression"]
    ELSE base @@ [suggested_weight_kg |-> last_weight,
                  status |-> "maintain", reason |-> "RPE high - maintain current weight"]

\* Bounds of the session histories: sessions fetched, and sets logged in the
\* most recent session.
MaxSessions == 3
MaxSets == 2

EX == "Bench Press"

SeqUpTo(S, n) == UNION {[1..k -> S] : k \in 0..n}

\* Sets of the most recent session: 100 kg top sets, 40 kg and 10 kg sets
\* (warm-ups next to 100 kg), a bodyweight set.
LatestSetGrid ==
    {[weight |-> I(100), reps |-> 5, rpe |-> Some(7)],
     [weight |-> I(100), reps |-> 5, rpe |-> Some(9)],
     [weight |-> I(100), reps |-> 0, rpe |-> Some(8)],
     [weight |-> I(40), reps |-> 5, rpe |-> Some(9)],
     [weight |-> I(40), reps |-> 5, rpe |-> None],
     [weight |-> I(10), reps |-> 5, rpe |-> Some(9)],
     [weight |-> I(0), reps |-> 5, rpe |-> Some(9)]}

\* Sets of earlier sessions.  _check_deload reads only the top weight of
\* their working sets, so an earlier session is one light set, one heavy
\* set, or a light warm-up before the heavy set.
EarlierSetGrid ==
    {[weight |-> I(100), reps |-> 5, rpe |-> Some(9)],
     [weight |-> I(10), reps |-> 5, rpe |-> None]}

OtherExercise == [name |-> "Barbell Row", sets |-> <<[weight |-> I(100), reps |-> 5, rpe |-> None]>>]

\* Sessions that logged the exercise (possibly with no sets) or did not.
SessionsOf(grid) ==
    {[exercises |-> <<OtherExercise>>]}
    \cup {[exercises |-> <<[name |-> EX, sets |-> sets]>>] : sets \in SeqUpTo(grid, MaxSets)}

\* The most recent session may also list another exercise first, or list
\* the exercise twice, the first time with no set logged.
LatestSessions ==
    SessionsOf(LatestSetGrid)
    \cup {[exercises |-> <<>>]}
    \cup {[exercises |-> <<OtherExercise, [name |-> EX, sets |-> <<st>>]>>] : st \in LatestSetGrid}
    \cup {[exercises |-> <<[name |-> EX, sets |-> <<>>], [name |-> EX, sets |-> <<st>>]>>] :
              st \in {x \in LatestSetGrid : x.weight = I(100) /\ x.reps = 5}}

\* ExerciseCategory values as stored in the exercises table, or no row.
Categories == {None, Some("chest"), Some("legs")}

EarlierSessions ==
    {[exercises |-> <<OtherExercise>>], [exercises |-> <<[name |-> EX, sets |-> <<>>]>>]}
    \cup {[exercises |-> <<[name |-> EX, sets |-> <<st>>]>>] : st \in EarlierSetGrid}
    \cup {[exercises |-> <<[name |-> EX, sets |-> <<w, st>>]>>] : w \in {x \in EarlierSetGrid : x.weight = I(10)}, st \in {x \in EarlierSetGrid : x.weight = I(100)}}

\* No session at all, or a most recent session followed by earlier ones.
InitProgression ==
    /\ \E c \in Categories :
          \/ prog_in = [sessions |-> <<>>, category |-> c]
          \/ \E k \in 0..(MaxSessions - 1) :
                \E l \in LatestSessions, e \in [1..k -> EarlierSessions] :
                   prog_in = [sessions |-> <<l>> \o e, category |-> c]
    /\ suggestion = NotCalled
    /\ IdleRecovery
    /\ IdleAdherence
    /\ IdleDashboard
    /\ IdleCalculators

ComputeSuggestion ==
    /\ suggestion = NotCalled
    /\ suggestion' = Return(_compute_suggestion(EX, prog_in.sessions, prog_in.category))
    /\ UNCHANGED <<prog_in, recVars, adhVars, dashVars, calcVars>>

NextProgression == ComputeSuggestion

SpecProgression == InitProgression /\ [][NextProgression]_vars

\* Histories around the warm-up threshold: the most recent session holds
\* sets at 100 kg, at half of it, below half and at 0 kg, with or without an
\* RPE; it is the only session or follows a session at 100 kg.
WorkingSetGrid ==
    [weight : {I(100), I(50), I(40), I(0)}, reps : {3, 5}, rpe : {None, Some(7), Some(10)}]

InitWorkingSets ==
    /\ \E k \in 1..MaxSets :
          \E sets \in [1..k -> WorkingSetGrid], c \in {None, Some("legs")},
             e \in {<<>>, <<[exercises |-> <<[name |-> EX, sets |-> <<[weight |-> I(100), reps |-> 5, rpe |-> Some(9)]>>]>>]>>} :
             prog_in = [sessions |-> <<[exercises |-> <<[name |-> EX, sets |-> sets]>>]>> \o e,
                        category |-> c]
    /\ suggestion = NotCalled
    /\ IdleRecovery
    /\ IdleAdherence
    /\ IdleDashboard
    /\ IdleCalculators

SpecWorkingSets == InitWorkingSets /\ [][NextProgression]_vars

\* ------------------------------------------------------------------------
\* NutritionCalculator._calculate_adherence_score
\* (backend/app/services/nutrition_calculator.py)
\* ------------------------------------------------------------------------
\* deviation <= 0.10 as the doubles decide it.  The quotient consumed / target
\* is correctly rounded, so a ratio of exactly 11/10 is the double nearest 1.1,
\* 1 - ratio is then exact and abs(1 - ratio) = 0.10000000000000009 > 0.10.
\* At every other ratio with |1 - ratio| = 0.10, 0.20 or 0.50 (9/10, 4/5, 6/5,
\* 1/2, 3/2) the double comparison agrees with the exact one.
Within10Pct(ratio, deviation) ==
    RLe(deviation, Rat(10, 100)) /\ ratio # Rat(11, 10)

_calculate_adherence_score(consumed, target, name) ==
    IF target <= 0 THEN I(50)
    ELSE LET ratio == Rat(consumed, target)
             deviation == RAbs(RSub(I(1), ratio))
         IN  IF Within10Pct(ratio, deviation)
             THEN RSub(I(100), RMul(deviation, I(100)))
             ELSE IF RLe(deviation, Rat(20, 100))
             THEN RSub(I(80), RMul(RSub(deviation, Rat(10, 100)), I(100)))
             ELSE IF RLe(deviation, Rat(50, 100))
             THEN RSub(I(60), RMul(RSub(deviation, Rat(20, 100)), I(100)))
             ELSE RMax(I(0), RSub(I(30), RMul(RSub(deviation, Rat(50, 100)), I(60))))

\* Consumed amounts and targets (kcal or grams).
ConsumedGrid ==
    {0, 40, 50, 80, 85, 90, 95, 100, 105, 110, 115, 120, 125, 150, 155, 200, 250, 300,
     1000, 1800, 2000, 2200, 2500, 3000}
TargetGrid == {-100, 0, 100, 2000}
NutrientNames == {"calories", "protein"}

InitAdherence ==
    /\ adh_in \in [consumed : ConsumedGrid, target : TargetGrid, name : NutrientNames]
    /\ adh_out = NotCalled
    /\ IdleRecovery
    /\ IdleProgression
    /\ IdleDashboard
    /\ IdleCalculators

CalculateAdherence ==
    /\ adh_out = NotCalled
    /\ adh_out' = Return(_calculate_adherence_score(adh_in.consumed, adh_in.target, adh_in.name))
    /\ UNCHANGED <<adh_in, recVars, progVars, dashVars, calcVars>>

NextAdherence == CalculateAdherence

SpecAdherence == InitAdherence /\ [][NextAdherence]_vars

\* ------------------------------------------------------------------------
\* DashboardService.get_dashboard   (backend/app/services/dashboard_service.py)
\* A section computation (an awaited service call) either raises or returns a
\* value; get_dashboard runs the four try blocks in order, then builds the
\* recommendations and the response.
\* ------------------------------------------------------------------------
DefaultEnhancedRecovery ==
    [score |-> 50, status |-> "unknown", factors |-> <<>>,
     primary_recommendation |-> "Unable to calculate recovery right now.",
     sleep_deficit_hours |-> None, estimated_full_recovery_hours |-> None]

DefaultReadiness == [score |-> 50, recommended_intensity |-> "moderate"]

DefaultProgress ==
    [key_lifts |-> <<>>, total_volume_week |-> 0, volume_trend_pct |-> 0,
     recent_prs |-> <<>>, muscle_balance |-> <<>>]

DefaultWeekly ==
    [workouts_completed |-> 0, workouts_planned |-> 0, avg_sleep_score |-> 0,
     nutrition_adherence_pct |-> 0, best_day |-> None, highlights |-> <<>>]

\* try: enhanced_recovery = await ...  except Exception: default
TryEnhancedRecovery(outcome) ==
    IF outcome.exc THEN Return(DefaultEnhancedRecovery) ELSE outcome

TryReadiness(outcome) ==
    IF outcome.exc THEN Return(DefaultReadiness) ELSE outcome

\* Variant without the except clause: the exception escapes.
TryProgressNoCatch(outcome) == outcome

TryProgress(outcome) ==
    IF outcome.exc THEN Return(DefaultProgress) ELSE outcome

TryWeekly(outcome) ==
    IF outcome.exc THEN Return(DefaultWeekly) ELSE outcome

SmartRecommendation(id, category, priority, title, action_route) ==
    [id |-> id, category |-> category, priority |-> priority, title |-> title,
     action_route |-> action_route]

\* Variant that takes the first recovered muscle group, not the most rested.
BestMuscleFirst(muscles) == Head(muscles)

RECURSIVE BestMuscle(_)
\* max(recovered_muscles, key=lambda m: m.days_since_trained or 0): first maximum
BestMuscle(muscles) ==
    LET Key(m) == IF IsNone(m.days_since_trained) THEN 0 ELSE Val(m.days_since_trained)
    IN  IF Len(muscles) = 1 THEN Head(muscles)
        ELSE LET rest == BestMuscle(Tail(muscles))
             IN  IF Key(Head(muscles)) >= Key(rest) THEN Head(muscles) ELSE rest

\* str.title() on the category names.
Title(str) ==
    CASE str = "legs" -> "Legs"
      [] str = "chest" -> "Chest"
      [] str = "back" -> "Back"
      [] OTHER -> str

RECURSIVE InsertByPriority(_, _)
InsertByPriority(sorted, r) ==
    IF sorted = <<>> THEN <<r>>
    ELSE IF r.priority < Head(sorted).priority THEN <<r>> \o sorted
    ELSE <<Head(sorted)>> \o InsertByPriority(Tail(sorted), r)

RECURSIVE SortByPriority(_)
\* recommendations.sort(key=lambda r: r.priority): stable
SortByPriority(recs) ==
    IF recs = <<>> THEN <<>>
    ELSE InsertByPriority(SortByPriority(SubSeq(recs, 1, Len(recs) - 1)), recs[Len(recs)])

\* Variant in which the celebration takes the next priority of the counter.
CelebrationPriorityCounted(priority) == priority

\* priority=100 of the PR celebration, whatever the counter is
CelebrationPriority(priority) == 100

_generate_recommendations(recovery, readiness_, progress_, weekly_) ==
    LET p0 == 0
        f1 == ~IsNone(recovery.sleep_deficit_hours) /\ Val(recovery.sleep_deficit_hours) # 0
              /\ Val(recovery.sleep_deficit_hours) > 1
        p1 == IF f1 THEN p0 + 1 ELSE p0
        r1 == IF f1 THEN <<SmartRecommendation(<<"sleep", p1>>, "sleep", p1, "Sleep Recovery", Some("sleep"))>>
              ELSE <<>>
        f2 == recovery.score < 60
        p2 == IF f2 THEN p1 + 1 ELSE p1
        r2 == IF f2 THEN <<SmartRecommendation(<<"recovery", p2>>, "recovery", p2, "Rest Day Recommended", None)>>
              ELSE <<>>
        recovered_muscles == SelectSeq(progress_.muscle_balance, LAMBDA m : m.status = "recovered")
        f3 == /\ recovered_muscles # <<>>
              /\ ~IsNone(BestMuscle(recovered_muscles).days_since_trained)
              /\ Val(BestMuscle(recovered_muscles).days_since_trained) >= 3
        p3 == IF f3 THEN p2 + 1 ELSE p2
        r3 == IF f3 THEN <<SmartRecommendation(<<"workout", p3>>, "workout", p3,
                              <<Title(BestMuscle(recovered_muscles).category), "Day">>, Some("workout"))>>
              ELSE <<>>
        f4 == weekly_.nutrition_adherence_pct < 60
        p4 == IF f4 THEN p3 + 1 ELSE p3
        r4 == IF f4 THEN <<SmartRecommendation(<<"nutrition", p4>>, "nutrition", p4, "Track Your Meals", Some("nutrition"))>>
              ELSE <<>>
        f5 == progress_.volume_trend_pct < -20
        p5 == IF f5 THEN p4 + 1 ELSE p4
        r5 == IF f5 THEN <<SmartRecommendation(<<"progress", p5>>, "workout", p5, "Volume Drop", Some("workout"))>>
              ELSE <<>>
        f6 == progress_.recent_prs # <<>>
        p6 == IF f6 THEN p5 + 1 ELSE p5
        r6 == IF f6 THEN <<SmartRecommendation(<<"pr", p6>>, "workout", CelebrationPriority(p6), "New PR!", None)>>
              ELSE <<>>
        recommendations == SortByPriority(r1 \o r2 \o r3 \o r4 \o r5 \o r6)
    IN  SubSeq(recommendations, 1, IF Len(recommendations) < 5 THEN Len(recommendations) ELSE 5)

DashboardResponse(enhanced_recovery_, readiness_, progress_, recommendations, weekly_) ==
    [enhanced_recovery |-> enhanced_recovery_,
     readiness_score |-> readiness_.score,
     readiness_intensity |-> readiness_.recommended_intensity,
     progress |-> progress_,
     recommendations |-> recommendations,
     weekly_summary |-> weekly_]

\* Values a section computation can return.
SleepFactor == [name |-> "sleep_hours", value |-> 6, score |-> 75, impact |-> "neutral",
                recommendation |-> Some("Aim for 7-9 hours of sleep")]

EnhancedRecoveryValues ==
    {[score |-> sc, status |-> IF sc >= 80 THEN "recovered" ELSE "moderate",
      factors |-> <<SleepFactor>>,
      primary_recommendation |-> "Consider a lighter workout or active recovery.",
      sleep_deficit_hours |-> d,
      estimated_full_recovery_hours |-> IF sc < 70 THEN Some(12) ELSE None]
       : sc \in {55, 60, 85}, d \in {None, Some(1), Some(2)}}

ReadinessValues ==
    {[score |-> 85, confidence |-> 85, recommended_intensity |-> "hard"],
     [score |-> 45, confidence |-> 85, recommended_intensity |-> "light"]}

MuscleBalanceValues ==
    {<<>>,
     <<[category |-> "chest", volume_7d |-> 900, days_since_trained |-> Some(1), status |-> "recovering"]>>,
     <<[category |-> "legs", volume_7d |-> 0, days_since_trained |-> Some(4), status |-> "recovered"]>>,
     <<[category |-> "legs", volume_7d |-> 0, days_since_trained |-> Some(3), status |-> "recovered"]>>,
     <<[category |-> "chest", volume_7d |-> 0, days_since_trained |-> None, status |-> "recovered"]>>,
     <<[category |-> "chest", volume_7d |-> 0, days_since_trained |-> Some(9), status |-> "needs_attention"]>>,
     <<[category |-> "back", volume_7d |-> 700, days_since_trained |-> Some(2), status |-> "recovered"],
       [category |-> "legs", volume_7d |-> 0, days_since_trained |-> Some(5), status |-> "recovered"]>>}

RecentPr == [exercise_name |-> "Squat", record_type |-> "1rm", value |-> 140, previous_value |-> Some(135)]

ProgressValues ==
    {[key_lifts |-> <<[exercise_name |-> "Squat", current_value |-> 140, change_value |-> 5,
                       change_percent |-> 4, period |-> "month"]>>,
      total_volume_week |-> 5000, volume_trend_pct |-> t, recent_prs |-> prs, muscle_balance |-> mb]
       : t \in {-30, -20, 10}, prs \in {<<>>, <<RecentPr>>}, mb \in MuscleBalanceValues}

WeeklyValues ==
    {[workouts_completed |-> 3, workouts_planned |-> 4, avg_sleep_score |-> 82,
      nutrition_adherence_pct |-> n, best_day |-> Some("Monday"),
      highlights |-> <<"Logged 3 workouts this week", "Great sleep quality this week">>]
       : n \in {43, 60, 86}}

Outcomes(values) == {Raise("Exception")} \cup {Return(v) : v \in values}

InitDashboard ==
    /\ dash_pc = "enhanced_recovery"
    /\ computed = <<>>
    /\ enhanced_recovery = None
    /\ readiness = None
    /\ progress = None
    /\ weekly = None
    /\ response = None
    /\ IdleRecovery
    /\ IdleProgression
    /\ IdleAdherence
    /\ IdleCalculators

\* One try block: the section's outcome o passes through its try/except r;
\* an exception that is not caught ends the call.
GetEnhancedRecovery ==
    /\ dash_pc = "enhanced_recovery"
    /\ \E o \in Outcomes(EnhancedRecoveryValues) :
          LET r == TryEnhancedRecovery(o)
          IN  /\ computed' = computed @@ ("enhanced_recovery" :> o)
              /\ IF r.exc
                 THEN dash_pc' = "raised" /\ UNCHANGED enhanced_recovery
                 ELSE dash_pc' = "readiness" /\ enhanced_recovery' = r.value
    /\ UNCHANGED <<readiness, progress, weekly, response, recVars, progVars, adhVars, calcVars>>

GetReadiness ==
    /\ dash_pc = "readiness"
    /\ \E o \in Outcomes(ReadinessValues) :
          LET r == TryReadiness(o)
          IN  /\ computed' = computed @@ ("readiness" :> o)
              /\ IF r.exc
                 THEN dash_pc' = "raised" /\ UNCHANGED readiness
                 ELSE dash_pc' = "progress" /\ readiness' = r.value
    /\ UNCHANGED <<enhanced_recovery, progress, weekly, response, recVars, progVars, adhVars, calcVars>>

GetProgress ==
    /\ dash_pc = "progress"
    /\ \E o \in Outcomes(ProgressValues) :
          LET r == TryProgress(o)
          IN  /\ computed' = computed @@ ("progress" :> o)
              /\ IF r.exc
                 THEN dash_pc' = "raised" /\ UNCHANGED progress
                 ELSE dash_pc' = "weekly" /\ progress' = r.value
    /\ UNCHANGED <<enhanced_recovery, readiness, weekly, response, recVars, progVars, adhVars, calcVars>>

GetWeekly ==
    /\ dash_pc = "weekly"
    /\ \E o \in Outcomes(WeeklyValues) :
          LET r == TryWeekly(o)
          IN  /\ computed' = computed @@ ("weekly" :> o)
              /\ IF r.exc
                 THEN dash_pc' = "raised" /\ UNCHANGED weekly
                 ELSE dash_pc' = "respond" /\ weekly' = r.value
    /\ UNCHANGED <<enhanced_recovery, readiness, progress, response, recVars, progVars, adhVars, calcVars>>

Respond ==
    /\ dash_pc = "respond"
    /\ response' = DashboardResponse(
                       enhanced_recovery, readiness, progress,
                       _generate_recommendations(enhanced_recovery, readiness, progress, weekly),
                       weekly)
    /\ dash_pc' = "done"
    /\ UNCHANGED <<computed, enhanced_recovery, readiness, progress, weekly,
                   recVars, progVars, adhVars, calcVars>>

NextDashboard ==
    \/ GetEnhancedRecovery
    \/ GetReadiness
    \/ GetProgress
    \/ GetWeekly
    \/ Respond

SpecDashboard == InitDashboard /\ [][NextDashboard]_vars

\* ------------------------------------------------------------------------
\* Properties of calculate_recovery_score
\* ------------------------------------------------------------------------
RecoveryReturned == rec_out.called /\ ~rec_out.exc

\* The documented argument ranges (docstring of calculate_recovery_score).
ValidRecoveryInput ==
    /\ 0 <= rec_in.sleep_hours /\ rec_in.sleep_hours <= 12
    /\ 0 <= rec_in.sleep_quality /\ rec_in.sleep_quality <= 100
    /\ IsNone(rec_in.hrv) \/ Val(rec_in.hrv) > 0
    /\ IsNone(rec_in.resting_hr) \/ Val(rec_in.resting_hr) > 0
    /\ 0 <= rec_in.training_load_7d /\ rec_in.training_load_7d <= 1000
    /\ 1 <= rec_in.stress_level /\ rec_in.stress_level <= 10
    /\ rec_in.hrv_baseline > 0
    /\ rec_in.rhr_baseline > 0

\* C2: for all valid inputs calculate_recovery_score returns a result with
\* 0 <= score <= 100 and 0 <= confidence <= 1.
C2_ScoreAndConfidenceInRange ==
    (rec_out.called /\ ValidRecoveryInput) =>
        /\ ~rec_out.exc
        /\ RLe(I(0), rec_out.value.score) /\ RLe(rec_out.value.score, I(100))
        /\ RLe(I(0), rec_out.value.confidence) /\ RLe(rec_out.value.confidence, I(1))

\* A valid call in which the HRV ratio exceeds 1.25 (the clamp is needed) and
\* every factor is present.
C2_Witness ==
    /\ RecoveryReturned /\ ValidRecoveryInput
    /\ rec_in.hrv = Some(100) /\ rec_in.resting_hr = Some(48)
    /\ rec_in.sleep_hours = 8 /\ rec_in.sleep_quality = 100
    /\ rec_out.value.confidence = I(1)

\* Weight (in hundredths) of a key of contributing_factors.
FactorWeight(name) ==
    IF name = "training_load" THEN 10
    ELSE [sleep_hours |-> 25, sleep_quality |-> 20, hrv |-> 20,
          resting_hr |-> 15, stress |-> 10][name]

FactorNames == {"sleep_hours", "sleep_quality", "hrv", "resting_hr", "training_load", "stress"}

RECURSIVE SumOver(_, _, _)
\* Sum of Term(f, name) over the names in S, as a rational.
SumOver(f, S, weighted) ==
    IF S = {} THEN I(0)
    ELSE LET n == CHOOSE x \in S : TRUE
             t == IF weighted THEN RMul(f[n].score, I(FactorWeight(n)))
                  ELSE I(FactorWeight(n))
         IN  RAdd(t, SumOver(f, S \ {n}, weighted))

PresentWeights == SumOver(rec_out.value.contributing_factors,
                          DOMAIN rec_out.value.contributing_factors, FALSE)
PresentWeightedScores == SumOver(rec_out.value.contributing_factors,
                                 DOMAIN rec_out.value.contributing_factors, TRUE)

C3ExampleInput ==
    /\ rec_in.sleep_hours = 8 /\ rec_in.sleep_quality = 90
    /\ rec_in.hrv = None /\ rec_in.resting_hr = None
    /\ rec_in.training_load_7d = 0 /\ rec_in.stress_level = 2

C3Example ==
    C3ExampleInput =>
        /\ DOMAIN rec_out.value.contributing_factors
             = {"sleep_hours", "sleep_quality", "training_load", "stress"}
        /\ rec_out.value.confidence = Rat(65, 100)

\* C3 as stated: confidence = present weights / all weights and the returned
\* score = weighted sum of the present factors' scores / present weights.
C3_Original ==
    RecoveryReturned =>
        /\ rec_out.value.confidence = RDiv(PresentWeights, I(100))
        /\ rec_out.value.score = RDiv(PresentWeightedScores, PresentWeights)
        /\ C3Example

\* C3 (amended): confidence = present weights / all weights; the returned score
\* is the weighted sum / present weights rounded to one decimal place (a whole
\* number of tenths at distance at most 0.05 from the quotient); the example
\* input uses exactly four factors and has confidence 0.65.
C3_ConfidenceAndRoundedScore ==
    RecoveryReturned =>
        /\ rec_out.value.confidence = RDiv(PresentWeights, I(100))
        /\ RMul(rec_out.value.score, I(10))[2] = 1
        /\ RLe(RAbs(RSub(rec_out.value.score,
                         RDiv(PresentWeightedScores, PresentWeights))),
               Rat(1, 20))
        /\ C3Example

\* The example call has returned.
C3_Witness == RecoveryReturned /\ C3ExampleInput /\ rec_in.hrv_baseline = 50

\* C4: the returned status agrees with the returned score: 'recovered' iff
\* score >= 80, 'moderate' iff 50 <= score < 80, 'fatigued' iff score < 50.
C4_StatusAgreesWithScore ==
    RecoveryReturned =>
        /\ rec_out.value.status = "recovered" <=> RLe(I(80), rec_out.value.score)
        /\ rec_out.value.status = "moderate" <=>
               (RLe(I(50), rec_out.value.score) /\ RLt(rec_out.value.score, I(80)))
        /\ rec_out.value.status = "fatigued" <=> RLt(rec_out.value.score, I(50))

\* C5: calculate_recovery_score never raises, also with zero denominators.
C5_NeverRaises == rec_out.called => ~rec_out.exc

\* ------------------------------------------------------------------------
\* Properties of _compute_suggestion
\* ------------------------------------------------------------------------
Suggested == suggestion.called

\* The exercise's history: the sessions that logged sets for it, most recent first.
History == ExerciseSessions(EX, prog_in.sessions)

\* Heaviest weight of a session.
TopWeight(sets) ==
    CHOOSE w \in {sets[i].weight : i \in 1..Len(sets)} :
        \A j \in 1..Len(sets) : RLe(sets[j].weight, w)

\* Indices of the working sets of a session: at least half the top weight.
WorkingIdx(sets) ==
    {i \in 1..Len(sets) : RLe(TopWeight(sets), I(0))
                          \/ RLe(TopWeight(sets), RMul(I(2), sets[i].weight))}

TrackedIdx(sets) == {i \in WorkingIdx(sets) : ~IsNone(sets[i].rpe)}

RECURSIVE RpeTotal(_, _)
RpeTotal(sets, idx) ==
    IF idx = {} THEN 0
    ELSE LET i == CHOOSE x \in idx : TRUE
         IN  Val(sets[i].rpe) + RpeTotal(sets, idx \ {i})

\* avg RPE >= n, resp. <= n, with the default 7 when no working set tracks RPE.
AvgRpeAtLeast(sets, n) ==
    IF TrackedIdx(sets) = {} THEN 7 >= n
    ELSE RpeTotal(sets, TrackedIdx(sets)) >= n * Cardinality(TrackedIdx(sets))
AvgRpeAtMost(sets, n) ==
    IF TrackedIdx(sets) = {} THEN 7 <= n
    ELSE RpeTotal(sets, TrackedIdx(sets)) <= n * Cardinality(TrackedIdx(sets))

\* Reps of the first heaviest working set.
TopReps(sets) ==
    sets[CHOOSE i \in WorkingIdx(sets) :
            /\ sets[i].weight = TopWeight(sets)
            /\ \A j \in WorkingIdx(sets) : sets[j].weight = TopWeight(sets) => i <= j].reps

Examined == {i \in 2..3 : i <= Len(History)}

Stagnation ==
    /\ Len(History) >= 2
    /\ \A i \in Examined : RLe(TopWeight(History[i]), TopWeight(History[1]))

IsMultipleOf2p5(x) == RDiv(x, Rat(5, 2))[2] = 1

Top100Rpe9 == <<[weight |-> I(100), reps |-> 5, rpe |-> Some(9)]>>

ThreeSessionsAt100Rpe9 ==
    /\ Len(prog_in.sessions) = 3
    /\ \A i \in 1..3 : prog_in.sessions[i] = [exercises |-> <<[name |-> EX, sets |-> Top100Rpe9]>>]

C7_NoDeloadAfterProgress ==
    (/\ Suggested
     /\ Len(History) >= 2
     /\ \A i \in Examined : RLt(TopWeight(History[i]), TopWeight(History[1])))
    => suggestion.value.status # "deload"

\* C8: a 'deload' suggestion is a multiple of 2.5 strictly below last_weight_kg.
C8_DeloadReducesWeight ==
    (Suggested /\ suggestion.value.status = "deload") =>
        /\ IsMultipleOf2p5(suggestion.value.suggested_weight_kg)
        /\ RLt(suggestion.value.suggested_weight_kg, suggestion.value.last_weight_kg)

C9Increment == IF prog_in.category = Some("legs") THEN I(5) ELSE Rat(5, 2)

C9ExampleInput ==
    /\ prog_in.category = Some("chest")
    /\ prog_in.sessions =
         <<[exercises |-> <<[name |-> EX,
                             sets |-> <<[weight |-> I(100), reps |-> 5, rpe |-> Some(7)]>>]>>]>>

\* C9: when the deload rule does not trigger, the status is 'increase' exactly
\* when the most recent average working-set RPE is <= 8 and the heaviest working
\* set has reps >= 1, with suggested = last_weight + 5 for 'legs' and + 2.5 for
\* any other or unknown category; otherwise 'maintain' at last_weight
\* (100 kg x 5 at RPE 7, chest -> 102.5).
C9_IncreaseOrMaintain ==
    (Suggested /\ History # <<>> /\ suggestion.value.status # "deload") =>
        LET cond == AvgRpeAtMost(History[1], 8) /\ TopReps(History[1]) >= 1
            last == TopWeight(History[1])
        IN  /\ suggestion.value.last_weight_kg = last
            /\ suggestion.value.status = "increase" <=> cond
            /\ cond => suggestion.value.suggested_weight_kg = RAdd(last, C9Increment)
            /\ ~cond => /\ suggestion.value.status = "maintain"
                        /\ suggestion.value.suggested_weight_kg = last
            /\ C9ExampleInput => suggestion.value.suggested_weight_kg = Rat(205, 2)

C9_Witness ==
    /\ Suggested /\ C9ExampleInput
    /\ suggestion.value.status = "increase"

\* ------------------------------------------------------------------------
\* Properties of _calculate_adherence_score
\* ------------------------------------------------------------------------
\* deviation = |1 - consumed/target| for a positive target.
Dev(consumed, target) == RAbs(RSub(I(1), Rat(consumed, target)))

\* The piecewise-linear decay of the claim.
Decay(dev) ==
    IF RLe(dev, Rat(1, 10)) THEN RSub(I(100), RMul(dev, I(100)))
    ELSE IF RLe(dev, Rat(2, 10)) THEN RSub(I(80), RMul(RSub(dev, Rat(1, 10)), I(100)))
    ELSE IF RLe(dev, Rat(5, 10)) THEN RSub(I(60), RMul(RSub(dev, Rat(2, 10)), I(100)))
    ELSE RMax(I(0), RSub(I(30), RMul(RSub(dev, Rat(5, 10)), I(60))))

\* C10: 50 when target <= 0, otherwise the piecewise decay of the deviation
\* (consumed = target scores 100, 2500 against 2000 scores 55); the score lies
\* in [0, 100] and never increases as the deviation grows.
C10_AdherencePiecewise ==
    adh_out.called =>
        /\ adh_in.target <= 0 => adh_out.value = I(50)
        /\ adh_in.target > 0 => adh_out.value = Decay(Dev(adh_in.consumed, adh_in.target))
        /\ (adh_in.target > 0 /\ adh_in.consumed = adh_in.target) => adh_out.value = I(100)
        /\ (adh_in.consumed = 2500 /\ adh_in.target = 2000) => adh_out.value = I(55)
        /\ RLe(I(0), adh_out.value) /\ RLe(adh_out.value, I(100))
        /\ adh_in.target > 0 =>
             \A c \in ConsumedGrid, t \in {x \in TargetGrid : x > 0} :
                RLt(Dev(adh_in.consumed, adh_in.target), Dev(c, t))
                => RLe(_calculate_adherence_score(c, t, adh_in.name), adh_out.value)

\* ------------------------------------------------------------------------
\* Properties of get_dashboard
\* ------------------------------------------------------------------------
Sections == {"enhanced_recovery", "readiness", "progress", "weekly"}

SectionRaised(sec) == computed[sec].exc

\* C1: whichever sections raise, get_dashboard returns a complete response and
\* never raises; a section that raised is replaced by its default (recovery 50 /
\* 'unknown' / no factors, readiness 50 / 'moderate', empty progress with zero
\* volume, weekly summary with all counters 0) and a section that succeeded
\* carries exactly the value it computed.
C1_DashboardNeverRaises ==
    /\ dash_pc # "raised"
    /\ dash_pc = "done" =>
         /\ DOMAIN computed = Sections
         /\ DOMAIN response = {"enhanced_recovery", "readiness_score", "readiness_intensity",
                               "progress", "recommendations", "weekly_summary"}
         /\ IF SectionRaised("enhanced_recovery")
            THEN /\ response.enhanced_recovery.score = 50
                 /\ response.enhanced_recovery.status = "unknown"
                 /\ response.enhanced_recovery.factors = <<>>
            ELSE response.enhanced_recovery = computed["enhanced_recovery"].value
         /\ IF SectionRaised("readiness")
            THEN /\ response.readiness_score = 50
                 /\ response.readiness_intensity = "moderate"
            ELSE /\ response.readiness_score = computed["readiness"].value.score
                 /\ response.readiness_intensity
                      = computed["readiness"].value.recommended_intensity
         /\ IF SectionRaised("progress")
            THEN /\ response.progress.key_lifts = <<>>
                 /\ response.progress.total_volume_week = 0
                 /\ response.progress.volume_trend_pct = 0
                 /\ response.progress.recent_prs = <<>>
                 /\ response.progress.muscle_balance = <<>>
            ELSE response.progress = computed["progress"].value
         /\ IF SectionRaised("weekly")
            THEN /\ response.weekly_summary.workouts_completed = 0
                 /\ response.weekly_summary.workouts_planned = 0
                 /\ response.weekly_summary.avg_sleep_score = 0
                 /\ response.weekly_summary.nutrition_adherence_pct = 0
                 /\ response.weekly_summary.highlights = <<>>
            ELSE response.weekly_summary = computed["weekly"].value

\* The progress summary raised, the other sections succeeded, and the response
\* was returned.
C1_Witness ==
    /\ dash_pc = "done"
    /\ SectionRaised("progress")
    /\ ~SectionRaised("enhanced_recovery") /\ ~SectionRaised("readiness")
    /\ ~SectionRaised("weekly")
    /\ response.weekly_summary = computed["weekly"].value

\* ------------------------------------------------------------------------
\* NutritionCalculator.calculate_nutrition_score
\* (backend/app/services/nutrition_calculator.py)
\* Amounts are integers (kcal or grams); scores are rationals.  Each
\* round(...) of a computed double may resolve a decimal tie either way, so
\* the operator yields the set of results the call can return.
\* ------------------------------------------------------------------------
Roundings(x, scale) == {RoundInexact(x, scale, tie_up) : tie_up \in BOOLEAN}

\* round(consumed / target, 2) if target > 0 else 0
RatioRoundings(consumed, target) ==
    IF target > 0 THEN Roundings(Rat(consumed, target), 100) ELSE {I(0)}

Impact(score) == IF RLe(I(70), score) THEN "positive" ELSE "negative"

NutrientFactor(consumed, target, ratio, score, rounded) ==
    [consumed |-> I(consumed), target |-> I(target), ratio |-> ratio,
     score |-> rounded, impact |-> Impact(score)]

WeightedNutritionScoreEqualThirds(calorie_score, macro_balance_score, consistency_score) ==
    RDiv(RAdd(RAdd(calorie_score, macro_balance_score), consistency_score), I(3))

WeightedNutritionScore(calorie_score, macro_balance_score, consistency_score) ==
    RAdd(RAdd(RMul(calorie_score, Rat(40, 100)),
              RMul(macro_balance_score, Rat(40, 100))),
         RMul(consistency_score, Rat(20, 100)))

calculate_nutrition_score(calories_consumed, calorie_target, protein_consumed, protein_target, carbs_consumed, carbs_target, fat_consumed, fat_target, days_logged_this_week) ==
    LET calorie_score == _calculate_adherence_score(calories_consumed, calorie_target, "calories")
        protein_score == _calculate_adherence_score(protein_consumed, protein_target, "protein")
        carbs_score == _calculate_adherence_score(carbs_consumed, carbs_target, "carbs")
        fat_score == _calculate_adherence_score(fat_consumed, fat_target, "fat")
        macro_scores == <<protein_score, carbs_score, fat_score>>
        macro_balance_score ==
            IF Len(macro_scores) # 0
            THEN RDiv(RAdd(RAdd(protein_score, carbs_score), fat_score), I(Len(macro_scores)))
            ELSE I(50)
        consistency_score == RMin(I(100), RMul(Rat(days_logged_this_week, 7), I(100)))
        overall_score == WeightedNutritionScore(calorie_score, macro_balance_score, consistency_score)
    IN  {Return([overall_score |-> overall,
                 calorie_adherence_score |-> calorie,
                 macro_balance_score |-> macro,
                 consistency_score |-> consistency,
                 contributing_factors |->
                    [calories |-> NutrientFactor(calories_consumed, calorie_target, calorie_ratio, calorie_score, calorie),
                     protein |-> NutrientFactor(protein_consumed, protein_target, protein_ratio, protein_score, protein),
                     carbs |-> NutrientFactor(carbs_consumed, carbs_target, carbs_ratio, carbs_score, carbs),
                     fat |-> NutrientFactor(fat_consumed, fat_target, fat_ratio, fat_score, fat),
                     consistency |-> [days_logged |-> days_logged_this_week,
                                      score |-> consistency,
                                      impact |-> Impact(consistency_score)]]]) :
            overall \in Roundings(overall_score, 10),
            calorie \in Roundings(calorie_score, 10),
            macro \in Roundings(macro_balance_score, 10),
            consistency \in Roundings(consistency_score, 10),
            calorie_ratio \in RatioRoundings(calories_consumed, calorie_target),
            protein_ratio \in RatioRoundings(protein_consumed, protein_target),
            carbs_ratio \in RatioRoundings(carbs_consumed, carbs_target),
            fat_ratio \in RatioRoundings(fat_consumed, fat_target),
            protein \in Roundings(protein_score, 10),
            carbs \in Roundings(carbs_score, 10),
            fat \in Roundings(fat_score, 10)}

\* (consumed, target) of the day: on target, 10 % over, half, nothing, 2.5
\* times the target, and targets that are zero or negative.
CalorieGrid == {<<2000, 2000>>, <<2200, 2000>>, <<1995, 2000>>, <<1000, 2000>>, <<0, 2000>>, <<5000, 2000>>, <<1800, 0>>, <<1800, -100>>}
ProteinGrid == {<<150, 150>>, <<100, 150>>, <<150, 0>>}
CarbsGrid == {<<250, 250>>, <<300, 250>>, <<0, 250>>}
FatGrid == {<<70, 70>>, <<200, 70>>, <<70, 0>>}
DaysLoggedGrid == {0, 3, 5, 7, 10}

InitNutritionScore ==
    /\ \E cal \in CalorieGrid, pro \in ProteinGrid, carb \in CarbsGrid, fat \in FatGrid, days \in DaysLoggedGrid :
          nut_in = [calories_consumed |-> cal[1], calorie_target |-> cal[2],
                    protein_consumed |-> pro[1], protein_target |-> pro[2],
                    carbs_consumed |-> carb[1], carbs_target |-> carb[2],
                    fat_consumed |-> fat[1], fat_target |-> fat[2],
                    days_logged_this_week |-> days]
    /\ nut_out = NotCalled
    /\ IdleRecovery
    /\ IdleProgression
    /\ IdleAdherence
    /\ IdleDashboard
    /\ IdleCalculatorsExcept("calculate_nutrition_score")

CalculateNutritionScore ==
    /\ nut_out = NotCalled
    /\ nut_out' \in calculate_nutrition_score(
                       nut_in.calories_consumed, nut_in.calorie_target,
                       nut_in.protein_consumed, nut_in.protein_target,
                       nut_in.carbs_consumed, nut_in.carbs_target,
                       nut_in.fat_consumed, nut_in.fat_target,
                       nut_in.days_logged_this_week)
    /\ UNCHANGED <<nut_in, recVars, progVars, adhVars, dashVars>>
    /\ OtherCalculatorsUnchanged("calculate_nutrition_score")

NextNutritionScore == CalculateNutritionScore

SpecNutritionScore == InitNutritionScore /\ [][NextNutritionScore]_vars

\* ------------------------------------------------------------------------
\* NutritionCalculator.calculate_bmr / calculate_tdee / calculate_macro_grams /
\* calculate_targets   (backend/app/services/nutrition_calculator.py)
\* ------------------------------------------------------------------------
ActivityMultiplier ==
    [SEDENTARY |-> Rat(12, 10), LIGHT |-> Rat(1375, 1000), MODERATE |-> Rat(155, 100),
     ACTIVE |-> Rat(1725, 1000), VERY_ACTIVE |-> Rat(19, 10)]

MACRO_DISTRIBUTIONS ==
    [lose_weight |-> [protein_pct |-> Rat(40, 100), carbs_pct |-> Rat(30, 100), fat_pct |-> Rat(30, 100)],
     build_muscle |-> [protein_pct |-> Rat(30, 100), carbs_pct |-> Rat(45, 100), fat_pct |-> Rat(25, 100)],
     maintain |-> [protein_pct |-> Rat(25, 100), carbs_pct |-> Rat(45, 100), fat_pct |-> Rat(30, 100)],
     general_health |-> [protein_pct |-> Rat(20, 100), carbs_pct |-> Rat(50, 100), fat_pct |-> Rat(30, 100)]]

CALORIE_ADJUSTMENTS ==
    [lose_weight |-> -500, build_muscle |-> 300, maintain |-> 0, general_health |-> 0]

CALORIES_PER_GRAM == [protein |-> 4, carbs |-> 4, fat |-> 9]

\* str.upper() on the activity level strings and the invite codes.
Upper(str) ==
    CASE str = "sedentary" -> "SEDENTARY"
      [] str = "a3f2b1" -> "A3F2B1"
      [] str = "light" -> "LIGHT"
      [] str = "moderate" -> "MODERATE"
      [] str = "active" -> "ACTIVE"
      [] str = "Active" -> "ACTIVE"
      [] str = "very_active" -> "VERY_ACTIVE"
      [] str = "athlete" -> "ATHLETE"
      [] OTHER -> str

calculate_bmrCaseSensitive(weight_kg, height_cm, age, gender) ==
    LET base_bmr == RSub(RAdd(RMul(I(10), weight_kg), RMul(Rat(625, 100), height_cm)), I(5 * age))
    IN  IF gender = "male" THEN RAdd(base_bmr, I(5)) ELSE RSub(base_bmr, I(161))

calculate_bmr(weight_kg, height_cm, age, gender) ==
    LET base_bmr == RSub(RAdd(RMul(I(10), weight_kg), RMul(Rat(625, 100), height_cm)), I(5 * age))
    IN  IF Lower(gender) = "male" THEN RAdd(base_bmr, I(5)) ELSE RSub(base_bmr, I(161))

calculate_tdee(bmr, activity_level, activity_adjustment) ==
    LET multiplier == IF Upper(activity_level) \in DOMAIN ActivityMultiplier
                      THEN ActivityMultiplier[Upper(activity_level)]
                      ELSE ActivityMultiplier.MODERATE
        base_tdee == RMul(bmr, multiplier)
    IN  RAdd(base_tdee, activity_adjustment)

calculate_macro_grams(calorie_target, distribution) ==
    [protein_g |-> RDiv(RMul(calorie_target, distribution.protein_pct), I(CALORIES_PER_GRAM.protein)),
     carbs_g |-> RDiv(RMul(calorie_target, distribution.carbs_pct), I(CALORIES_PER_GRAM.carbs)),
     fat_g |-> RDiv(RMul(calorie_target, distribution.fat_pct), I(CALORIES_PER_GRAM.fat))]

\* The NutritionTargets the call can return.  bmr is a sum of exactly
\* representable doubles for the weights and heights considered (multiples of
\* 0.5), so round(bmr, 1) is the exact half-even rounding; the other values
\* are computed with rounding errors.
calculate_targets(weight_kg, height_cm, age, gender, activity_level, goal_type, activity_adjustment, custom_calorie_target, custom_protein_g, custom_carbs_g, custom_fat_g) ==
    LET bmr == calculate_bmr(weight_kg, height_cm, age, gender)
        tdee == calculate_tdee(bmr, activity_level, activity_adjustment)
        calorie_target ==
            IF ~IsNone(custom_calorie_target) THEN Val(custom_calorie_target)
            ELSE LET adjustment == IF goal_type \in DOMAIN CALORIE_ADJUSTMENTS
                                   THEN CALORIE_ADJUSTMENTS[goal_type] ELSE 0
                 IN  RAdd(tdee, I(adjustment))
        distribution == IF goal_type \in DOMAIN MACRO_DISTRIBUTIONS
                        THEN MACRO_DISTRIBUTIONS[goal_type]
                        ELSE MACRO_DISTRIBUTIONS.general_health
        defaults == calculate_macro_grams(calorie_target, distribution)
        protein_g == IF ~IsNone(custom_protein_g) THEN Val(custom_protein_g) ELSE defaults.protein_g
        carbs_g == IF ~IsNone(custom_carbs_g) THEN Val(custom_carbs_g) ELSE defaults.carbs_g
        fat_g == IF ~IsNone(custom_fat_g) THEN Val(custom_fat_g) ELSE defaults.fat_g
    IN  {Return([bmr |-> Round(bmr, 10),
                 tdee |-> tdee_rounded,
                 calorie_target |-> target_rounded,
                 protein_g |-> protein_rounded,
                 carbs_g |-> carbs_rounded,
                 fat_g |-> fat_rounded,
                 protein_pct |-> RMul(distribution.protein_pct, I(100)),
                 carbs_pct |-> RMul(distribution.carbs_pct, I(100)),
                 fat_pct |-> RMul(distribution.fat_pct, I(100))]) :
            tdee_rounded \in Roundings(tdee, 10),
            target_rounded \in Roundings(calorie_target, 10),
            protein_rounded \in Roundings(protein_g, 10),
            carbs_rounded \in Roundings(carbs_g, 10),
            fat_rounded \in Roundings(fat_g, 10)}

WeightGrid == {I(70), Rat(165, 2)}
HeightGrid == {I(175), I(176)}
AgeGrid == {30, 45}
GenderGrid == {"male", "Male", "female", "other"}
ActivityLevelGrid == {"sedentary", "light", "moderate", "active", "Active", "very_active", "athlete"}
GoalTypeGrid == {"lose_weight", "build_muscle", "maintain", "general_health", "recomposition"}
ActivityAdjustmentGrid == {I(0), I(350)}
CustomCalorieGrid == {None, Some(I(1800))}
CustomMacroGrid == {<<None, None, None>>, <<Some(I(180)), None, None>>, <<None, Some(I(200)), Some(I(60))>>}

InitTargets ==
    /\ \E w \in WeightGrid, h \in HeightGrid, a \in AgeGrid, g \in GenderGrid, l \in ActivityLevelGrid, goal \in GoalTypeGrid, adj \in ActivityAdjustmentGrid, cal \in CustomCalorieGrid, macros \in CustomMacroGrid :
          tgt_in = [weight_kg |-> w, height_cm |-> h, age |-> a, gender |-> g,
                    activity_level |-> l, goal_type |-> goal, activity_adjustment |-> adj,
                    custom_calorie_target |-> cal, custom_protein_g |-> macros[1],
                    custom_carbs_g |-> macros[2], custom_fat_g |-> macros[3]]
    /\ tgt_out = NotCalled
    /\ IdleRecovery
    /\ IdleProgression
    /\ IdleAdherence
    /\ IdleDashboard
    /\ IdleCalculatorsExcept("calculate_targets")

CalculateTargets ==
    /\ tgt_out = NotCalled
    /\ tgt_out' \in calculate_targets(
                       tgt_in.weight_kg, tgt_in.height_cm, tgt_in.age, tgt_in.gender,
                       tgt_in.activity_level, tgt_in.goal_type, tgt_in.activity_adjustment,
                       tgt_in.custom_calorie_target, tgt_in.custom_protein_g,
                       tgt_in.custom_carbs_g, tgt_in.custom_fat_g)
    /\ UNCHANGED <<tgt_in, recVars, progVars, adhVars, dashVars>>
    /\ OtherCalculatorsUnchanged("calculate_targets")

NextTargets == CalculateTargets

SpecTargets == InitTargets /\ [][NextTargets]_vars

\* ------------------------------------------------------------------------
\* FitnessPredictor.calculate_readiness_score   (backend/app/ml/ml_models.py)
\* ------------------------------------------------------------------------
READINESS_WEIGHTS ==
    [recovery_score |-> Rat(35, 100), sleep_quality |-> Rat(20, 100),
     days_since_hard_workout |-> Rat(15, 100), energy_level |-> Rat(15, 100),
     muscle_soreness |-> Rat(15, 100)]

RestScoreNoSweetSpot(days_since_hard_workout) ==
    IF days_since_hard_workout = 0 THEN 40
    ELSE IF days_since_hard_workout > 5 THEN 70
    ELSE 80

RestScore(days_since_hard_workout) ==
    IF days_since_hard_workout = 0 THEN 40
    ELSE IF 1 <= days_since_hard_workout /\ days_since_hard_workout <= 3 THEN 90
    ELSE IF days_since_hard_workout > 5 THEN 70
    ELSE 80

ReadinessFactor(value, score, impact) == [value |-> value, score |-> score, impact |-> impact]

RecommendedIntensity(score) ==
    IF RLe(I(80), score) THEN "hard"
    ELSE IF RLe(I(60), score) THEN "moderate"
    ELSE IF RLe(I(40), score) THEN "light"
    ELSE "rest"

SuggestedWorkouts(score) ==
    IF RLe(I(80), score) THEN <<"HIIT", "Strength Training", "Long Run", "Competition">>
    ELSE IF RLe(I(60), score) THEN <<"Tempo Run", "Circuit Training", "Swimming", "Cycling">>
    ELSE IF RLe(I(40), score) THEN <<"Yoga", "Walking", "Light Stretching", "Easy Swim">>
    ELSE <<"Rest", "Meditation", "Gentle Stretching", "Massage">>

calculate_readiness_score(recovery_score, sleep_quality, days_since_hard_workout, energy_level, muscle_soreness) ==
    LET rest_score == RestScore(days_since_hard_workout)
        energy_score == RMul(RDiv(energy_level, I(10)), I(100))
        soreness_score == RMul(RDiv(RSub(I(10), muscle_soreness), I(10)), I(100))
        factors ==
            [recovery |-> ReadinessFactor(recovery_score, recovery_score,
                             IF RLt(I(70), recovery_score) THEN "positive" ELSE "negative"),
             sleep |-> ReadinessFactor(sleep_quality, sleep_quality,
                             IF RLt(I(70), sleep_quality) THEN "positive" ELSE "negative"),
             rest_days |-> ReadinessFactor(I(days_since_hard_workout), I(rest_score),
                             IF 1 <= days_since_hard_workout /\ days_since_hard_workout <= 3
                             THEN "positive" ELSE "neutral"),
             energy |-> ReadinessFactor(energy_level, energy_score,
                             IF RLe(I(7), energy_level) THEN "positive" ELSE "negative"),
             soreness |-> ReadinessFactor(muscle_soreness, soreness_score,
                             IF RLe(muscle_soreness, I(4)) THEN "positive" ELSE "negative")]
        score ==
            RAdd(RAdd(RAdd(RAdd(RMul(factors.recovery.score, READINESS_WEIGHTS.recovery_score),
                                RMul(factors.sleep.score, READINESS_WEIGHTS.sleep_quality)),
                           RMul(factors.rest_days.score, READINESS_WEIGHTS.days_since_hard_workout)),
                      RMul(factors.energy.score, READINESS_WEIGHTS.energy_level)),
                 RMul(factors.soreness.score, READINESS_WEIGHTS.muscle_soreness))
    IN  {Return([score |-> rounded,
                 confidence |-> Rat(85, 100),
                 recommended_intensity |-> RecommendedIntensity(score),
                 factors |-> factors,
                 suggested_workout_types |-> SuggestedWorkouts(score)]) :
            rounded \in Roundings(score, 10)}

RecoveryScoreGrid == {I(0), Rat(457, 10), I(70), I(71), I(100)}
ReadinessSleepGrid == {I(0), I(70), I(100)}
DaysSinceHardGrid == {-1, 0, 1, 2, 3, 4, 5, 6, 30}
EnergyGrid == {I(1), I(7), I(10)}
SorenessGrid == {I(1), I(3), I(10)}

InitReadiness ==
    /\ ready_in \in [recovery_score : RecoveryScoreGrid, sleep_quality : ReadinessSleepGrid,
                     days_since_hard_workout : DaysSinceHardGrid, energy_level : EnergyGrid,
                     muscle_soreness : SorenessGrid]
    /\ ready_out = NotCalled
    /\ IdleRecovery
    /\ IdleProgression
    /\ IdleAdherence
    /\ IdleDashboard
    /\ IdleCalculatorsExcept("calculate_readiness_score")

CalculateReadiness ==
    /\ ready_out = NotCalled
    /\ ready_out' \in calculate_readiness_score(
                         ready_in.recovery_score, ready_in.sleep_quality,
                         ready_in.days_since_hard_workout, ready_in.energy_level,
                         ready_in.muscle_soreness)
    /\ UNCHANGED <<ready_in, recVars, progVars, adhVars, dashVars>>
    /\ OtherCalculatorsUnchanged("calculate_readiness_score")

NextReadiness == CalculateReadiness

SpecReadiness == InitReadiness /\ [][NextReadiness]_vars

\* ------------------------------------------------------------------------
\* FitnessPredictor.calculate_wellness_score   (backend/app/ml/ml_models.py)
\* previous_scores is None or Some(list of scores), oldest index first.
\* ------------------------------------------------------------------------
WELLNESS_WEIGHTS ==
    [sleep |-> Rat(25, 100), activity |-> Rat(20, 100), recovery |-> Rat(20, 100),
     nutrition |-> Rat(15, 100), stress |-> Rat(10, 100), mood |-> Rat(10, 100)]

RECURSIVE RSum(_)
RSum(q) == IF q = <<>> THEN I(0) ELSE RAdd(Head(q), RSum(Tail(q)))

\* np.mean of a non-empty list
Mean(q) == RDiv(RSum(q), I(Len(q)))

\* A double holds x exactly when x is a (small) binary fraction.
ExactDouble(x) == x[2] \in {1, 2, 4, 8, 16}

\* a > b on doubles that stand for the rationals a and b: decided by the
\* rationals unless they are equal and not exactly representable, when the
\* rounding errors of the two computations decide.
GtDoubles(a, b) ==
    IF a = b /\ ~(ExactDouble(a) /\ ExactDouble(b)) THEN BOOLEAN ELSE {RLt(b, a)}

\* The trends the call can report.
Trends(previous_scores) ==
    IF IsNone(previous_scores) \/ Len(Val(previous_scores)) < 3 THEN {"stable"}
    ELSE LET scores == Val(previous_scores)
             n == Len(scores)
             recent_avg == Mean(SubSeq(scores, n - 2, n))
             older_avg == IF n > 3 THEN Mean(SubSeq(scores, 1, n - 3)) ELSE recent_avg
         IN  {IF up THEN "improving" ELSE IF down THEN "declining" ELSE "stable" :
                 up \in GtDoubles(recent_avg, RAdd(older_avg, I(5))),
                 down \in GtDoubles(RSub(older_avg, I(5)), recent_avg)}

calculate_wellness_score(sleep_score, activity_score, recovery_score, nutrition_score, stress_score, mood_score, baseline_wellness, previous_scores) ==
    LET components ==
            [sleep |-> Round(sleep_score, 10), activity |-> Round(activity_score, 10),
             recovery |-> Round(recovery_score, 10), nutrition |-> Round(nutrition_score, 10),
             stress_management |-> Round(stress_score, 10), mood |-> Round(mood_score, 10)]
        overall_score ==
            RAdd(RAdd(RAdd(RAdd(RAdd(RMul(sleep_score, WELLNESS_WEIGHTS.sleep),
                                     RMul(activity_score, WELLNESS_WEIGHTS.activity)),
                                RMul(recovery_score, WELLNESS_WEIGHTS.recovery)),
                           RMul(nutrition_score, WELLNESS_WEIGHTS.nutrition)),
                      RMul(stress_score, WELLNESS_WEIGHTS.stress)),
                 RMul(mood_score, WELLNESS_WEIGHTS.mood))
    IN  {Return([overall_score |-> overall,
                 components |-> components,
                 trend |-> trend,
                 comparison_to_baseline |-> comparison]) :
            trend \in Trends(previous_scores),
            comparison \in Roundings(RSub(overall_score, baseline_wellness), 10),
            overall \in Roundings(overall_score, 10)}

\* Longest list of previous scores considered (the service fetches up to 7).
MaxHistory == 4

\* Previous wellness scores, as stored: one decimal place.
PreviousScoreGrid == {I(70), Rat(799, 10), Rat(586, 10), Rat(976, 10), Rat(685, 10)}

ComponentScoreGrid == {I(70), Rat(457, 10)}

InitWellnessScore ==
    /\ \E sleep \in ComponentScoreGrid, recovery \in ComponentScoreGrid, mood \in {I(0), I(70), I(100)} :
          \/ well_in = [sleep_score |-> sleep, activity_score |-> I(70), recovery_score |-> recovery,
                        nutrition_score |-> I(70), stress_score |-> I(70), mood_score |-> mood,
                        baseline_wellness |-> I(70), previous_scores |-> None]
          \/ \E n \in 0..MaxHistory :
                \E scores \in [1..n -> PreviousScoreGrid] :
                   well_in = [sleep_score |-> sleep, activity_score |-> I(70), recovery_score |-> recovery,
                              nutrition_score |-> I(70), stress_score |-> I(70), mood_score |-> mood,
                              baseline_wellness |-> I(70), previous_scores |-> Some(scores)]
    /\ well_out = NotCalled
    /\ IdleRecovery
    /\ IdleProgression
    /\ IdleAdherence
    /\ IdleDashboard
    /\ IdleCalculatorsExcept("calculate_wellness_score")

CalculateWellnessScore ==
    /\ well_out = NotCalled
    /\ well_out' \in calculate_wellness_score(
                        well_in.sleep_score, well_in.activity_score, well_in.recovery_score,
                        well_in.nutrition_score, well_in.stress_score, well_in.mood_score,
                        well_in.baseline_wellness, well_in.previous_scores)
    /\ UNCHANGED <<well_in, recVars, progVars, adhVars, dashVars>>
    /\ OtherCalculatorsUnchanged("calculate_wellness_score")

NextWellnessScore == CalculateWellnessScore

SpecWellnessScore == InitWellnessScore /\ [][NextWellnessScore]_vars

\* ------------------------------------------------------------------------
\* PredictionService.get_wellness_score / get_wellness_history and the
\* /wellness and /wellness/history endpoints
\* (backend/app/services/prediction_service.py, backend/app/api/predictions.py)
\* A dict is a function on its keys; a daily_scores row is such a dict.
\* ------------------------------------------------------------------------
\* d.get(key, default)
Get(d, key, default) == IF key \in DOMAIN d THEN d[key] ELSE default

\* components of a stored daily score (lines 240-247, 330-337)
StoredComponents(data) ==
    [sleep |-> Get(data, "sleep_score", I(70)),
     activity |-> Get(data, "activity_score", I(70)),
     recovery |-> Get(data, "recovery_score", I(70)),
     nutrition |-> Get(data, "nutrition_score", I(70)),
     stress_management |-> Get(data, "stress_score", I(70)),
     mood |-> Get(data, "mood_score", I(70))]

\* WellnessResult(wellness_score=..., ...) built from an existing daily score
StoredWellnessResult(data) ==
    [wellness_score |-> Get(data, "wellness_score", I(70)),
     components |-> StoredComponents(data),
     trend |-> Get(data, "trend", "stable"),
     comparison_to_baseline |-> RSub(Get(data, "wellness_score", I(70)), I(70))]

RECURSIVE MetricScores(_, _)
\* the loop over the day's metrics (lines 271-287): later rows overwrite
MetricScores(metrics, acc) ==
    IF metrics = <<>> THEN acc
    ELSE LET metric == Head(metrics)
             mtype == metric.metric_type
             value == metric.value
             next == CASE mtype = "sleep_quality" -> [acc EXCEPT !.sleep_score = value]
                       [] mtype = "steps" ->
                            [acc EXCEPT !.activity_score = RMin(I(100), RMul(RDiv(value, I(10000)), I(100)))]
                       [] mtype = "calories_in" ->
                            [acc EXCEPT !.nutrition_score = RMin(I(100), RDiv(value, I(20)))]
                       [] mtype = "stress" ->
                            [acc EXCEPT !.stress_score = RMax(I(0), RMul(RDiv(RSub(I(10), value), I(10)), I(100)))]
                       [] mtype = "mood" ->
                            [acc EXCEPT !.mood_score = RMul(RDiv(value, I(10)), I(100))]
                       [] OTHER -> acc
         IN  MetricScores(Tail(metrics), next)

DefaultMetricScores ==
    [sleep_score |-> I(70), activity_score |-> I(70), nutrition_score |-> I(70),
     stress_score |-> I(70), mood_score |-> I(70)]

\* The results get_wellness_score can hand to the endpoint.
get_wellness_score(existing_score, recovery, metrics, history) ==
    IF existing_score # <<>>
    THEN {Return(StoredWellnessResult(existing_score[1]))}
    ELSE LET scores == MetricScores(metrics, DefaultMetricScores)
             previous_scores ==
                 IF history # <<>>
                 THEN Some([i \in 1..Len(history) |-> history[i].wellness_score])
                 ELSE None
         IN  calculate_wellness_score(scores.sleep_score, scores.activity_score, recovery.score,
                                      scores.nutrition_score, scores.stress_score, scores.mood_score,
                                      I(70), previous_scores)

get_wellness_history(history) ==
    Return([i \in 1..Len(history) |->
              [date |-> history[i].date,
               wellness_score |-> Get(history[i], "wellness_score", I(70)),
               components |-> StoredComponents(history[i]),
               trend |-> Get(history[i], "trend", "stable"),
               comparison_to_baseline |-> RSub(Get(history[i], "wellness_score", I(70)), I(70))]])

\* WellnessScoreBreakdown(date=..., overall_score=result["overall_score"], ...)
WellnessScoreBreakdown(date, result) ==
    IF "overall_score" \notin DOMAIN result THEN Raise("KeyError")
    ELSE IF "components" \notin DOMAIN result THEN Raise("KeyError")
    ELSE IF "trend" \notin DOMAIN result THEN Raise("KeyError")
    ELSE IF "comparison_to_baseline" \notin DOMAIN result THEN Raise("KeyError")
    ELSE IF ~(RLe(I(0), result.overall_score) /\ RLe(result.overall_score, I(100)))
    THEN Raise("ValidationError")
    ELSE Return([date |-> date,
                 overall_score |-> result.overall_score,
                 components |-> result.components,
                 trend |-> result.trend,
                 comparison_to_baseline |-> result.comparison_to_baseline])

RECURSIVE WellnessHistoryResponse(_)
\* the list comprehension of the history endpoint: the first failing entry raises
WellnessHistoryResponse(history) ==
    IF history = <<>> THEN Return(<<>>)
    ELSE LET first == WellnessScoreBreakdown(history[1].date, history[1])
             rest == WellnessHistoryResponse(Tail(history))
         IN  IF first.exc THEN first
             ELSE IF rest.exc THEN rest
             ELSE Return(<<first.value>> \o rest.value)

\* Most daily_scores rows of one request.
MaxRows == 2

\* Dates are day numbers; the request is for day 3.
TargetDate == 3

FullRow(date, score) ==
    [date |-> date, wellness_score |-> score, sleep_score |-> I(80), activity_score |-> I(65),
     recovery_score |-> Rat(457, 10), nutrition_score |-> I(70), stress_score |-> I(60),
     mood_score |-> I(90), trend |-> "improving"]

\* Rows of daily_scores: with every column, or with the score only.
DailyScoreRows ==
    {FullRow(TargetDate, Rat(825, 10)), [date |-> TargetDate, wellness_score |-> I(71)],
     FullRow(2, I(64)), [date |-> 1, wellness_score |-> I(71)]}

\* .order("date", desc=True), one row per day
NewestFirst(rows) == \A i, j \in 1..Len(rows) : i < j => rows[i].date > rows[j].date

MetricsGrid ==
    {<<>>,
     <<[metric_type |-> "steps", value |-> I(12000)]>>,
     <<[metric_type |-> "sleep_quality", value |-> I(85)], [metric_type |-> "stress", value |-> I(3)],
       [metric_type |-> "mood", value |-> I(8)], [metric_type |-> "calories_in", value |-> I(1800)]>>,
     <<[metric_type |-> "steps", value |-> I(4000)], [metric_type |-> "weight", value |-> I(80)]>>}

RecoveryPredictions == {[score |-> sc] : sc \in RecoveryScoreGrid}

InitWellnessApi ==
    /\ \/ \E existing \in {<<>>} \cup {<<row>> : row \in {r \in DailyScoreRows : r.date = TargetDate}}, rec \in RecoveryPredictions, metrics \in MetricsGrid :
             \E n \in 0..MaxRows :
                \E history \in [1..n -> {r \in DailyScoreRows : r.date < TargetDate}] :
                   /\ NewestFirst(history)
                   /\ wapi_req = [endpoint |-> "wellness", existing_score |-> existing,
                                  recovery |-> rec, metrics |-> metrics, history |-> history]
       \/ \E n \in 0..MaxRows :
             \E history \in [1..n -> DailyScoreRows] :
                /\ NewestFirst(history)
                /\ wapi_req = [endpoint |-> "wellness_history", history |-> history]
    /\ wapi_pc = "service"
    /\ wapi_result = NotCalled
    /\ wapi_response = NotCalled
    /\ IdleRecovery
    /\ IdleProgression
    /\ IdleAdherence
    /\ IdleDashboard
    /\ IdleCalculatorsExcept("wellness_api")

\* result = await service.get_wellness_score(current_user.id, target_date)
ServiceGetWellnessScore ==
    /\ wapi_pc = "service" /\ wapi_req.endpoint = "wellness"
    /\ wapi_result' \in get_wellness_score(wapi_req.existing_score, wapi_req.recovery,
                                           wapi_req.metrics, wapi_req.history)
    /\ wapi_pc' = "api"
    /\ UNCHANGED <<wapi_req, wapi_response, recVars, progVars, adhVars, dashVars>>
    /\ OtherCalculatorsUnchanged("wellness_api")

\* return WellnessScoreBreakdown(...)
ApiGetWellnessScore ==
    /\ wapi_pc = "api" /\ wapi_req.endpoint = "wellness"
    /\ wapi_response' = WellnessScoreBreakdown(TargetDate, wapi_result.value)
    /\ wapi_pc' = "done"
    /\ UNCHANGED <<wapi_req, wapi_result, recVars, progVars, adhVars, dashVars>>
    /\ OtherCalculatorsUnchanged("wellness_api")

\* history = await service.get_wellness_history(current_user.id, days)
ServiceGetWellnessHistory ==
    /\ wapi_pc = "service" /\ wapi_req.endpoint = "wellness_history"
    /\ wapi_result' = get_wellness_history(wapi_req.history)
    /\ wapi_pc' = "api"
    /\ UNCHANGED <<wapi_req, wapi_response, recVars, progVars, adhVars, dashVars>>
    /\ OtherCalculatorsUnchanged("wellness_api")

\* return [WellnessScoreBreakdown(...) for h in history]
ApiGetWellnessHistory ==
    /\ wapi_pc = "api" /\ wapi_req.endpoint = "wellness_history"
    /\ wapi_response' = WellnessHistoryResponse(wapi_result.value)
    /\ wapi_pc' = "done"
    /\ UNCHANGED <<wapi_req, wapi_result, recVars, progVars, adhVars, dashVars>>
    /\ OtherCalculatorsUnchanged("wellness_api")

NextWellnessApi ==
    \/ ServiceGetWellnessScore
    \/ ApiGetWellnessScore
    \/ ServiceGetWellnessHistory
    \/ ApiGetWellnessHistory

SpecWellnessApi == InitWellnessApi /\ [][NextWellnessApi]_vars

\* .limit(7) of the history query of get_wellness_score
HistoryLimit == 7

\* The stored scores of the days before the target day, most recent first:
\* .lt("date", target).order("date", desc=True).limit(7)
ScoreHistories ==
    UNION {{[i \in 1..n |-> [date |-> TargetDate - i, wellness_score |-> scores[i]]] :
               scores \in [1..n -> {I(60), I(70), I(80)}]} : n \in 0..HistoryLimit}

\* A /wellness request of a day without a stored score, with up to seven
\* earlier days scored
InitWellnessTrend ==
    /\ \E history \in ScoreHistories, metrics \in {<<>>, <<[metric_type |-> "steps", value |-> I(12000)]>>} :
          wapi_req = [endpoint |-> "wellness", existing_score |-> <<>>,
                      recovery |-> [score |-> I(70)], metrics |-> metrics, history |-> history]
    /\ wapi_pc = "service"
    /\ wapi_result = NotCalled
    /\ wapi_response = NotCalled
    /\ IdleRecovery
    /\ IdleProgression
    /\ IdleAdherence
    /\ IdleDashboard
    /\ IdleCalculatorsExcept("wellness_api")

NextWellnessTrend ==
    \/ ServiceGetWellnessScore
    \/ ApiGetWellnessScore

SpecWellnessTrend == InitWellnessTrend /\ [][NextWellnessTrend]_vars

\* ------------------------------------------------------------------------
\* PredictionService.analyze_correlations
\* ------------------------------------------------------------------------
Min(a, b) == IF a < b THEN a ELSE b

\* list(by_type.keys()): the metric types in the order of their first row
RECURSIVE KeysOf(_)
KeysOf(data) ==
    IF data = <<>> THEN <<>>
    ELSE LET rest == KeysOf(SubSeq(data, 1, Len(data) - 1))
             type == data[Len(data)].metric_type
         IN  IF \E i \in 1..Len(rest) : rest[i] = type THEN rest ELSE Append(rest, type)

\* by_type[type]: the values of the rows of that type, in row order
ValuesOf(data, type) ==
    LET rows == SelectSeq(data, LAMBDA m : m.metric_type = type)
    IN  [i \in 1..Len(rows) |-> rows[i].value]

IsConstant(arr) == \A i \in 1..Len(arr) : arr[i] = arr[1]

\* The sign of value - mean, where mean is the double numpy computes for n
\* copies of value (pairwise summation, then one division): zero when every
\* partial sum is exact, otherwise what the rounded sum gives.
MeanError(value, n) ==
    IF ExactDouble(value) THEN 0
    ELSE CASE value = Rat(724, 10) /\ n \in {6, 7} -> 1
           [] value = Rat(73, 10) /\ n = 7 -> 1
           [] OTHER -> 0

\* np.std(arr) > 0
StdPositive(arr) ==
    IF IsConstant(arr) THEN MeanError(arr[1], Len(arr)) # 0 ELSE TRUE

Products(arr_a, arr_b) == [i \in 1..Len(arr_a) |-> RMul(arr_a[i], arr_b[i])]
Covariance(arr_a, arr_b) ==
    RSub(Mean(Products(arr_a, arr_b)), RMul(Mean(arr_a), Mean(arr_b)))

Sign(n) == IF n > 0 THEN 1 ELSE IF n < 0 THEN -1 ELSE 0

\* np.corrcoef(arr_a, arr_b)[0, 1] as its sign and its square. The deviations
\* of a constant array from its mean are all the same rounding error, so two
\* such arrays correlate perfectly and one of them against anything else not
\* at all.
corrcoef(arr_a, arr_b) ==
    IF IsConstant(arr_a) /\ IsConstant(arr_b)
    THEN [sign |-> MeanError(arr_a[1], Len(arr_a)) * MeanError(arr_b[1], Len(arr_b)),
          square |-> I(1)]
    ELSE IF IsConstant(arr_a) \/ IsConstant(arr_b) THEN [sign |-> 0, square |-> I(0)]
    ELSE LET cov == Covariance(arr_a, arr_b)
         IN  [sign |-> Sign(cov[1]),
              square |-> RDiv(RMul(cov, cov),
                              RMul(Covariance(arr_a, arr_a), Covariance(arr_b, arr_b)))]

\* abs(corr) > threshold on doubles: rounding errors decide at equality,
\* the threshold (0.3, 0.7) not being a double.
AbsGreater(corr, threshold) ==
    LET t2 == RMul(threshold, threshold)
    IN  IF corr.square = t2 THEN BOOLEAN ELSE {RLt(t2, corr.square)}

\* The largest k in lo..hi with (k - 1/2) / 1000 <= the root of square
RECURSIVE RoundedRoot(_, _, _)
RoundedRoot(square, lo, hi) ==
    IF lo = hi THEN lo
    ELSE LET mid == (lo + hi + 1) \div 2
         IN  IF (2 * mid - 1) * (2 * mid - 1) * square[2] <= 4000000 * square[1]
             THEN RoundedRoot(square, mid, hi)
             ELSE RoundedRoot(square, lo, mid - 1)

\* round(corr, 3)
RoundCorrelation(corr) == Rat(corr.sign * RoundedRoot(corr.square, 0, 1000), 1000)

\* _generate_correlation_insight: the text is fixed by the two factors, the
\* strength and the direction
generate_correlation_insight(factor_a, factor_b, corr, strong) ==
    [strength |-> IF strong THEN "strong" ELSE "moderate",
     direction |-> IF corr.sign > 0 THEN "positive" ELSE "negative"]

\* What one pair of metric types appends to correlations: nothing, or one entry
PairCorrelations(data, type_a, type_b) ==
    LET values_a == ValuesOf(data, type_a)
        values_b == ValuesOf(data, type_b)
        min_len == Min(Len(values_a), Len(values_b))
        arr_a == SubSeq(values_a, 1, min_len)
        arr_b == SubSeq(values_b, 1, min_len)
    IN  IF min_len < 5 THEN {<<>>}
        ELSE IF ~(StdPositive(arr_a) /\ StdPositive(arr_b)) THEN {<<>>}
        ELSE LET corr == corrcoef(arr_a, arr_b)
             IN  {IF meaningful
                  THEN <<[factor_a |-> type_a, factor_b |-> type_b,
                          correlation |-> RoundCorrelation(corr),
                          insight |-> generate_correlation_insight(type_a, type_b, corr, strong),
                          data_points |-> min_len,
                          confidence |-> RMin(Rat(95, 100), Rat(min_len, 30))]>>
                  ELSE <<>> :
                     meaningful \in AbsGreater(corr, Rat(3, 10)),
                     strong \in AbsGreater(corr, Rat(7, 10))}

\* The two nested loops over metric_types, from the pair (i, j) on
RECURSIVE CorrelationsFrom(_, _, _, _)
CorrelationsFrom(data, metric_types, i, j) ==
    IF i > Len(metric_types) THEN {<<>>}
    ELSE IF j > Len(metric_types) THEN CorrelationsFrom(data, metric_types, i + 1, i + 2)
    ELSE {entry \o rest :
             entry \in PairCorrelations(data, metric_types[i], metric_types[j]),
             rest \in CorrelationsFrom(data, metric_types, i, j + 1)}

\* The sort on the signed correlation instead of its strength
RECURSIVE SortByStrengthSigned(_)
SortByStrengthSigned(correlations) ==
    IF correlations = <<>> THEN <<>>
    ELSE LET n == Len(correlations)
             sorted == SortByStrengthSigned(SubSeq(correlations, 1, n - 1))
             x == correlations[n]
             before == Cardinality({k \in 1..(n - 1) :
                          RLe(x.correlation, sorted[k].correlation)})
         IN  SubSeq(sorted, 1, before) \o <<x>> \o SubSeq(sorted, before + 1, n - 1)

\* correlations.sort(key=lambda x: abs(x["correlation"]), reverse=True): a
\* stable sort, entries of equal strength keep their order
RECURSIVE SortByStrength(_)
SortByStrength(correlations) ==
    IF correlations = <<>> THEN <<>>
    ELSE LET n == Len(correlations)
             sorted == SortByStrength(SubSeq(correlations, 1, n - 1))
             x == correlations[n]
             before == Cardinality({k \in 1..(n - 1) :
                          RLe(RAbs(x.correlation), RAbs(sorted[k].correlation))})
         IN  SubSeq(sorted, 1, before) \o <<x>> \o SubSeq(sorted, before + 1, n - 1)

\* correlations[:10]
Top10(correlations) == SubSeq(correlations, 1, Min(10, Len(correlations)))

\* The outcomes of analyze_correlations: the list before the sort and the
\* list returned
analyze_correlations(data) ==
    IF Len(data) < 10 THEN {[kept |-> <<>>, returned |-> <<>>]}
    ELSE {[kept |-> correlations, returned |-> Top10(SortByStrength(correlations))] :
             correlations \in CorrelationsFrom(data, KeysOf(data), 1, 2)}

MaxTypes == 6

MetricTypeNames == <<"sleep", "hrv", "steps", "stress", "mood", "energy", "weight", "resting_hr">>

Ints(q) == [i \in 1..Len(q) |-> I(q[i])]
Repeat(value, n) == [i \in 1..n |-> value]

\* Value series of one metric type over the window: rising, falling, mixed,
\* constant, too short, longer than the others, or absent
TrendingSeries == {Ints(<<1, 2, 3, 4, 5>>), Ints(<<5, 4, 3, 2, 1>>), Ints(<<1, 3, 2, 5, 4>>)}
SeriesGrid ==
    TrendingSeries \cup
    {<<>>, Ints(<<1, 2, 3, 4>>), Ints(<<2, 1, 4, 3, 6, 5>>),
     Ints(<<0, 3, 4, 4, 4>>), Ints(<<0, 5, 2, 1, 1>>),
     Repeat(I(2), 5), Repeat(I(8000), 12),
     Repeat(Rat(724, 10), 7), Repeat(Rat(73, 10), 7)}

\* The rows of the series, type after type
RECURSIVE RowsOf(_, _)
RowsOf(series, t) ==
    IF t > Len(series) THEN <<>>
    ELSE [i \in 1..Len(series[t]) |->
             [metric_type |-> MetricTypeNames[t], value |-> series[t][i]]]
         \o RowsOf(series, t + 1)

\* Two metric types with any series, or MaxTypes types that all trend
SeriesInputs ==
    {<<a, b>> : a \in SeriesGrid, b \in SeriesGrid} \cup [1..MaxTypes -> TrendingSeries]

InitCorrelations ==
    /\ \E series \in SeriesInputs : corr_in = RowsOf(series, 1)
    /\ corr_kept = <<>>
    /\ corr_out = NotCalled
    /\ IdleRecovery
    /\ IdleProgression
    /\ IdleAdherence
    /\ IdleDashboard
    /\ IdleCalculatorsExcept("analyze_correlations")

AnalyzeCorrelations ==
    /\ corr_out = NotCalled
    /\ \E outcome \in analyze_correlations(corr_in) :
          /\ corr_kept' = outcome.kept
          /\ corr_out' = Return(outcome.returned)
    /\ UNCHANGED <<corr_in, recVars, progVars, adhVars, dashVars>>
    /\ OtherCalculatorsUnchanged("analyze_correlations")

NextCorrelations == AnalyzeCorrelations

SpecCorrelations == InitCorrelations /\ [][NextCorrelations]_vars

\* ------------------------------------------------------------------------
\* WellnessCalculator   (backend/app/services/wellness_calculator.py)
\* ------------------------------------------------------------------------
DEFAULT_GOALS ==
    [steps |-> 10000, active_calories |-> 500, sleep_hours |-> 8,
     resting_hr_optimal |-> 60, hrv_baseline |-> 50]

\* Variant whose training_load weight is doubled.
WEIGHTSHeavyTrainingLoad ==
    [activity |-> Rat(20, 100), sleep |-> Rat(20, 100), recovery |-> Rat(15, 100),
     mental |-> Rat(15, 100), nutrition |-> Rat(20, 100), training_load |-> Rat(20, 100)]

WEIGHTS ==
    [activity |-> Rat(20, 100), sleep |-> Rat(20, 100), recovery |-> Rat(15, 100),
     mental |-> Rat(15, 100), nutrition |-> Rat(20, 100), training_load |-> Rat(10, 100)]

\* sum(scores) / len(scores) if scores else 50.0
MeanOrDefault(scores) == IF scores = <<>> THEN I(50) ELSE Mean(scores)

_calculate_activity_score(metrics) ==
    LET step_score ==
            IF IsNone(metrics.steps) THEN <<>>
            ELSE <<RMin(I(100), RMul(RDiv(I(Val(metrics.steps)), I(DEFAULT_GOALS.steps)), I(100)))>>
        cal_score ==
            IF IsNone(metrics.active_calories) THEN <<>>
            ELSE <<RMin(I(100), RMul(RDiv(I(Val(metrics.active_calories)),
                                          I(DEFAULT_GOALS.active_calories)), I(100)))>>
    IN  MeanOrDefault(step_score \o cal_score)

_calculate_sleep_score(metrics) ==
    LET duration == Val(metrics.sleep_duration_hours)
        duration_score ==
            IF IsNone(metrics.sleep_duration_hours) THEN <<>>
            ELSE IF RLe(I(7), duration) /\ RLe(duration, I(9)) THEN <<I(100)>>
            ELSE IF RLt(duration, I(7))
                 THEN <<RMax(I(0), RSub(I(100), RMul(RSub(I(7), duration), I(20))))>>
            ELSE <<RMax(I(0), RSub(I(100), RMul(RSub(duration, I(9)), I(10))))>>
        quality == IF IsNone(metrics.sleep_quality) THEN <<>> ELSE <<Val(metrics.sleep_quality)>>
    IN  MeanOrDefault(duration_score \o quality)

_calculate_recovery_score(metrics) ==
    LET hrv_score ==
            IF IsNone(metrics.hrv) THEN <<>>
            ELSE <<RMin(I(100), RAdd(RMul(RDiv(Val(metrics.hrv), I(DEFAULT_GOALS.hrv_baseline)),
                                          I(70)), I(30)))>>
        rhr == Val(metrics.resting_hr)
        optimal == DEFAULT_GOALS.resting_hr_optimal
        rhr_score ==
            IF IsNone(metrics.resting_hr) THEN <<>>
            ELSE IF rhr <= optimal THEN <<I(100)>>
            ELSE <<RMax(I(0), I(100 - (rhr - optimal) * 2))>>
        soreness_score ==
            IF IsNone(metrics.soreness) THEN <<>> ELSE <<I((10 - Val(metrics.soreness)) * 10)>>
    IN  MeanOrDefault(hrv_score \o rhr_score \o soreness_score)

_calculate_mental_score(metrics) ==
    LET energy == IF IsNone(metrics.energy_level) THEN <<>> ELSE <<I(Val(metrics.energy_level) * 10)>>
        mood == IF IsNone(metrics.mood) THEN <<>> ELSE <<I(Val(metrics.mood) * 10)>>
        stress == IF IsNone(metrics.stress) THEN <<>> ELSE <<I((10 - Val(metrics.stress)) * 10)>>
    IN  MeanOrDefault(energy \o mood \o stress)

_calculate_nutrition_score(metrics) ==
    IF ~IsNone(metrics.nutrition_score) THEN Val(metrics.nutrition_score) ELSE I(70)

_calculate_training_load_score(metrics) ==
    LET load == Val(metrics.training_load_7d)
        optimal_min == I(300)
        optimal_max == I(800)
    IN  IF IsNone(metrics.training_load_7d) THEN I(70)
        ELSE IF RLe(optimal_min, load) /\ RLe(load, optimal_max) THEN I(100)
        ELSE IF RLt(load, optimal_min) THEN RMax(I(40), RMul(RDiv(load, optimal_min), I(100)))
        ELSE RMax(I(30), RSub(I(100), RMul(RDiv(RSub(load, optimal_max), optimal_max), I(70))))

MetricFields ==
    {"steps", "active_calories", "sleep_duration_hours", "sleep_quality", "resting_hr", "hrv",
     "energy_level", "mood", "stress", "soreness", "nutrition_score", "training_load_7d"}

_calculate_completeness(metrics) ==
    Rat(Cardinality({f \in MetricFields : ~IsNone(metrics[f])}), Cardinality(MetricFields))

\* The component scores before rounding
ComponentScores(metrics) ==
    [activity |-> _calculate_activity_score(metrics),
     sleep |-> _calculate_sleep_score(metrics),
     recovery |-> _calculate_recovery_score(metrics),
     mental |-> _calculate_mental_score(metrics),
     nutrition |-> _calculate_nutrition_score(metrics),
     training_load |-> _calculate_training_load_score(metrics)]

\* The weighted overall score before rounding
WeightedOverall(scores) ==
    RAdd(RAdd(RAdd(RAdd(RAdd(RMul(scores.activity, WEIGHTS.activity),
                             RMul(scores.sleep, WEIGHTS.sleep)),
                        RMul(scores.recovery, WEIGHTS.recovery)),
                   RMul(scores.mental, WEIGHTS.mental)),
              RMul(scores.nutrition, WEIGHTS.nutrition)),
         RMul(scores.training_load, WEIGHTS.training_load))

\* WellnessCalculator.calculate: the WellnessBreakdowns it can return
calculate(metrics) ==
    LET scores == ComponentScores(metrics)
    IN  {Return([overall_score |-> overall, activity_score |-> activity, sleep_score |-> sleep,
                 recovery_score |-> recovery, mental_score |-> mental,
                 nutrition_score |-> nutrition, training_load_score |-> training_load,
                 data_completeness |-> completeness]) :
            overall \in Roundings(WeightedOverall(scores), 10),
            activity \in Roundings(scores.activity, 10),
            sleep \in Roundings(scores.sleep, 10),
            recovery \in Roundings(scores.recovery, 10),
            mental \in Roundings(scores.mental, 10),
            nutrition \in Roundings(scores.nutrition, 10),
            training_load \in Roundings(scores.training_load, 10),
            completeness \in Roundings(_calculate_completeness(metrics), 100)}

Optional(values) == {None} \cup {Some(v) : v \in values}

DailyMetricsGrid ==
    [steps : Optional({7225, 12000}), active_calories : Optional({350}),
     sleep_duration_hours : Optional({Rat(65, 10), I(10)}), sleep_quality : Optional({I(70)}),
     resting_hr : Optional({72}), hrv : Optional({I(45)}),
     energy_level : Optional({7}), mood : Optional({8}), stress : Optional({3}),
     soreness : Optional({4}), nutrition_score : Optional({Rat(723, 10)}),
     training_load_7d : Optional({I(210), I(1000)})]

InitWellnessCalculator ==
    /\ wc_in \in DailyMetricsGrid
    /\ wc_out = NotCalled
    /\ IdleRecovery
    /\ IdleProgression
    /\ IdleAdherence
    /\ IdleDashboard
    /\ IdleCalculatorsExcept("calculate")

Calculate ==
    /\ wc_out = NotCalled
    /\ wc_out' \in calculate(wc_in)
    /\ UNCHANGED <<wc_in, recVars, progVars, adhVars, dashVars>>
    /\ OtherCalculatorsUnchanged("calculate")

NextWellnessCalculator == Calculate

SpecWellnessCalculator == InitWellnessCalculator /\ [][NextWellnessCalculator]_vars

\* ------------------------------------------------------------------------
\* The shared instances: predictor (ml_models.py) and _calculator
\* (nutrition_calculator.py), and the calls made on them
\* ------------------------------------------------------------------------
MaxCalls == 3

\* FitnessPredictor(): __init__ sets baseline_scores = {}; the weight tables
\* are class attributes read through self
FitnessPredictor ==
    [baseline_scores |-> <<>>, RECOVERY_WEIGHTS |-> RECOVERY_WEIGHTS,
     READINESS_WEIGHTS |-> READINESS_WEIGHTS, WELLNESS_WEIGHTS |-> WELLNESS_WEIGHTS]

\* NutritionCalculator(): no __init__; CALORIES_PER_GRAM is its one class
\* table, read through self
NutritionCalculator == [CALORIES_PER_GRAM |-> CALORIES_PER_GRAM]

\* get_nutrition_calculator(): creates the instance on first use
get_nutrition_calculator(instance) ==
    IF IsNone(instance) THEN Some(NutritionCalculator) ELSE instance

\* Variant in which a scoring call remembers its result as a baseline.
SelfAfterCallStoringBaseline(self, method, result) ==
    [self EXCEPT !.baseline_scores = (method :> result) @@ self.baseline_scores]

\* The instance after a call of one of its methods: the methods assign no
\* attribute of self and no entry of a table
SelfAfterCall(self, method, result) == self

\* The doubles of one build round the same way every time: of the outcomes
\* the rounding allows, a call with given arguments always has the same one.
FixedOutcome(outcomes) == CHOOSE outcome \in outcomes : TRUE

RecoveryArgs ==
    {[sleep_hours |-> 7, sleep_quality |-> 70, hrv |-> None, resting_hr |-> None,
      training_load_7d |-> 0, stress_level |-> 5, hrv_baseline |-> 50, rhr_baseline |-> 60],
     [sleep_hours |-> 6, sleep_quality |-> 90, hrv |-> Some(40), resting_hr |-> Some(75),
      training_load_7d |-> 600, stress_level |-> 2, hrv_baseline |-> 50, rhr_baseline |-> 60]}

ReadinessArgs ==
    {[recovery_score |-> I(70), sleep_quality |-> I(70), days_since_hard_workout |-> 2,
      energy_level |-> I(7), muscle_soreness |-> I(3)],
     [recovery_score |-> Rat(457, 10), sleep_quality |-> I(70), days_since_hard_workout |-> 0,
      energy_level |-> I(7), muscle_soreness |-> I(3)]}

WellnessArgs ==
    {[sleep_score |-> I(70), activity_score |-> I(70), recovery_score |-> I(70),
      nutrition_score |-> I(70), stress_score |-> I(70), mood_score |-> I(70),
      baseline_wellness |-> I(70), previous_scores |-> ps] :
        ps \in {None, Some(<<I(70), Rat(586, 10), Rat(976, 10), Rat(976, 10)>>)}}

TargetsArgs ==
    {[weight_kg |-> I(70), height_cm |-> I(175), age |-> 30, gender |-> g,
      activity_level |-> "moderate", goal_type |-> "maintain", activity_adjustment |-> I(0),
      custom_calorie_target |-> None, custom_protein_g |-> None, custom_carbs_g |-> None,
      custom_fat_g |-> None] : g \in {"male", "female"}}

NutritionScoreArgs ==
    {[calories_consumed |-> c, calorie_target |-> 2000, protein_consumed |-> 100,
      protein_target |-> 150, carbs_consumed |-> 300, carbs_target |-> 250,
      fat_consumed |-> 70, fat_target |-> 70, days_logged_this_week |-> 5] : c \in {1995, 1000}}

InitSingletons ==
    /\ predictor = Some(FitnessPredictor)
    /\ _calculator = None
    /\ calls = <<>>
    /\ IdleRecovery
    /\ IdleProgression
    /\ IdleAdherence
    /\ IdleDashboard
    /\ IdleCalculatorsExcept("singletons")

\* One call of a predictor method through get_predictor()
PredictorCall(method, args, result) ==
    /\ Len(calls) < MaxCalls
    /\ calls' = Append(calls, [method |-> method, args |-> args, result |-> result])
    /\ predictor' = Some(SelfAfterCall(Val(predictor), method, result))
    /\ UNCHANGED <<_calculator, recVars, progVars, adhVars, dashVars>>
    /\ OtherCalculatorsUnchanged("singletons")

\* One call of a calculator method through get_nutrition_calculator()
CalculatorCall(method, args, result) ==
    /\ Len(calls) < MaxCalls
    /\ calls' = Append(calls, [method |-> method, args |-> args, result |-> result])
    /\ _calculator' = Some(SelfAfterCall(Val(get_nutrition_calculator(_calculator)), method, result))
    /\ UNCHANGED <<predictor, recVars, progVars, adhVars, dashVars>>
    /\ OtherCalculatorsUnchanged("singletons")

CallRecoveryScore ==
    \E a \in RecoveryArgs :
        PredictorCall("calculate_recovery_score", a,
            FixedOutcome({calculate_recovery_score(
                              a.sleep_hours, a.sleep_quality, a.hrv, a.resting_hr,
                              a.training_load_7d, a.stress_level, a.hrv_baseline,
                              a.rhr_baseline, tie_up) : tie_up \in BOOLEAN}))

CallReadinessScore ==
    \E a \in ReadinessArgs :
        PredictorCall("calculate_readiness_score", a,
            FixedOutcome(calculate_readiness_score(
                             a.recovery_score, a.sleep_quality, a.days_since_hard_workout,
                             a.energy_level, a.muscle_soreness)))

CallWellnessScore ==
    \E a \in WellnessArgs :
        PredictorCall("calculate_wellness_score", a,
            FixedOutcome(calculate_wellness_score(
                             a.sleep_score, a.activity_score, a.recovery_score,
                             a.nutrition_score, a.stress_score, a.mood_score,
                             a.baseline_wellness, a.previous_scores)))

CallTargets ==
    \E a \in TargetsArgs :
        CalculatorCall("calculate_targets", a,
            FixedOutcome(calculate_targets(
                             a.weight_kg, a.height_cm, a.age, a.gender, a.activity_level,
                             a.goal_type, a.activity_adjustment, a.custom_calorie_target,
                             a.custom_protein_g, a.custom_carbs_g, a.custom_fat_g)))

CallNutritionScore ==
    \E a \in NutritionScoreArgs :
        CalculatorCall("calculate_nutrition_score", a,
            FixedOutcome(calculate_nutrition_score(
                             a.calories_consumed, a.calorie_target, a.protein_consumed,
                             a.protein_target, a.carbs_consumed, a.carbs_target,
                             a.fat_consumed, a.fat_target, a.days_logged_this_week)))

NextSingletons ==
    \/ CallRecoveryScore
    \/ CallReadinessScore
    \/ CallWellnessScore
    \/ CallTargets
    \/ CallNutritionScore

SpecSingletons == InitSingletons /\ [][NextSingletons]_vars

\* ------------------------------------------------------------------------
\* The Streamlit session state of healthpulse_app.py: init_theme, the theme
\* toggle and the page buttons
\* ------------------------------------------------------------------------
MaxRuns == 3

Pages == {"Overview", "Analytics", "Prediction", "Patients", "Reports"}

\* get_default_theme(), with datetime.now().hour as argument
get_default_theme(hour) == IF 8 <= hour /\ hour < 19 THEN "light" ELSE "dark"

\* st.session_state.<key> = value
SetItem(state, key, value) ==
    [k \in DOMAIN state \cup {key} |-> IF k = key THEN value ELSE state[k]]

\* Variant that sets the theme of the hour on every run.
init_themeOfTheHour(state, hour) ==
    LET themed == SetItem(state, "theme", get_default_theme(hour))
        paged == IF "current_page" \notin DOMAIN themed
                    THEN SetItem(themed, "current_page", "Overview") ELSE themed
    IN  IF "theme_toggle" \notin DOMAIN paged
           THEN SetItem(paged, "theme_toggle", paged.theme = "dark") ELSE paged

\* init_theme(): the session state it leaves, read at the given hour
init_theme(state, hour) ==
    LET themed == IF "theme" \notin DOMAIN state
                     THEN SetItem(state, "theme", get_default_theme(hour)) ELSE state
        paged == IF "current_page" \notin DOMAIN themed
                    THEN SetItem(themed, "current_page", "Overview") ELSE themed
    IN  IF "theme_toggle" \notin DOMAIN paged
           THEN SetItem(paged, "theme_toggle", paged.theme = "dark") ELSE paged

\* Session states a script run can start from: any of the three keys may
\* be present already
SessionStates ==
    {[k \in keys |-> CASE k = "theme" -> theme
                       [] k = "current_page" -> page
                       [] OTHER -> toggle] :
        keys \in SUBSET {"theme", "current_page", "theme_toggle"},
        theme \in {"light", "dark"}, page \in {"Overview", "Metrics"}, toggle \in BOOLEAN}

InitTheme ==
    /\ session_state \in SessionStates
    /\ current_hour \in 0..23
    /\ runs = 0
    /\ IdleRecovery
    /\ IdleProgression
    /\ IdleAdherence
    /\ IdleDashboard
    /\ IdleCalculatorsExcept("init_theme")

ThemeFrame ==
    /\ UNCHANGED <<recVars, progVars, adhVars, dashVars>>
    /\ OtherCalculatorsUnchanged("init_theme")

\* main(): a script run starts with init_theme()
RunInitTheme ==
    /\ runs < MaxRuns
    /\ runs' = runs + 1
    /\ session_state' = init_theme(session_state, current_hour)
    /\ UNCHANGED current_hour
    /\ ThemeFrame

\* The toggle widget of a rendered page flips theme_toggle, then
\* toggle_theme sets the theme from it
ToggleTheme ==
    /\ runs > 0
    /\ LET flipped == SetItem(session_state, "theme_toggle", ~session_state.theme_toggle)
       IN  session_state' =
               SetItem(flipped, "theme", IF flipped.theme_toggle THEN "dark" ELSE "light")
    /\ UNCHANGED <<current_hour, runs>>
    /\ ThemeFrame

\* A navigation button of a rendered page
Navigate ==
    /\ runs > 0
    /\ \E page \in Pages : session_state' = SetItem(session_state, "current_page", page)
    /\ UNCHANGED <<current_hour, runs>>
    /\ ThemeFrame

\* datetime.now().hour moves on
HourPasses ==
    /\ current_hour' = (current_hour + 1) % 24
    /\ UNCHANGED <<session_state, runs>>
    /\ ThemeFrame

NextTheme ==
    \/ RunInitTheme
    \/ ToggleTheme
    \/ Navigate
    \/ HourPasses

SpecTheme == InitTheme /\ [][NextTheme]_vars

\* ------------------------------------------------------------------------
\* Training partners   (backend/app/api/social.py)
\* The tables invite_codes and partnerships, and the requests under way.
\* A handler is a sequence of database calls; each call is one step, so
\* that requests served by different workers can overlap.  A row id is the
\* row's position in its table; times are day numbers.
\* ------------------------------------------------------------------------
MaxCodes == 1
MaxRequests == 2
MaxDay == 8

UserIds == {"ana", "ben", "cy"}

\* secrets.token_hex(3).upper() of the n-th code created
TokenHex == <<"A3F2B1", "00C0DE", "5EED01">>

\* Codes that requests carry: the first code in lower case, and the second,
\* which is unknown until a second code is created
RequestedCodes == {"a3f2b1", "00C0DE"}

\* .eq(column, value).single(): the position of the row, 0 when there is none
SingleWhere(table, Matches(_)) ==
    IF \E i \in 1..Len(table) : Matches(table[i])
    THEN CHOOSE i \in 1..Len(table) : Matches(table[i]) ELSE 0

HTTPException(request, status_code, detail) ==
    [rid |-> request.rid, endpoint |-> request.endpoint, user |-> request.user,
     target |-> request.target, status_code |-> status_code, detail |-> detail]

Responded(request) ==
    [rid |-> request.rid, endpoint |-> request.endpoint, user |-> request.user,
     target |-> request.target, status_code |-> 200, detail |-> "OK"]

InitSocial ==
    /\ invite_codes = <<>>
    /\ partnerships = <<>>
    /\ created_from = <<>>
    /\ requests = <<>>
    /\ started = 0
    /\ now = 0
    /\ social_response = None
    /\ IdleRecovery
    /\ IdleProgression
    /\ IdleAdherence
    /\ IdleDashboard
    /\ IdleCalculatorsExcept("social")

SocialFrame ==
    /\ UNCHANGED <<recVars, progVars, adhVars, dashVars>>
    /\ OtherCalculatorsUnchanged("social")

\* create_invite_code: one insert
create_invite_code ==
    /\ Len(invite_codes) < MaxCodes
    /\ \E current_user \in UserIds :
          invite_codes' = Append(invite_codes,
              [id |-> Len(invite_codes) + 1, code |-> TokenHex[Len(invite_codes) + 1],
               created_by |-> current_user,
               max_uses |-> 1, use_count |-> 0, expires_at |-> now + 7])
    /\ UNCHANGED <<partnerships, created_from, requests, started, now, social_response>>
    /\ SocialFrame

\* The requests under way, by request number
Put(table, request) ==
    [rid \in DOMAIN table \cup {request.rid} |-> IF rid = request.rid THEN request ELSE table[rid]]

\* A request arrives: its handler has made no database call yet
Arrives(endpoint, Targets) ==
    /\ started < MaxRequests
    /\ started' = started + 1
    /\ \E current_user \in UserIds, target \in Targets :
          requests' = Put(requests,
              [rid |-> started + 1, endpoint |-> endpoint, user |-> current_user,
               target |-> target, pc |-> "select", data |-> None])
    /\ UNCHANGED <<invite_codes, partnerships, created_from, now, social_response>>
    /\ SocialFrame

PartnershipIds == 1..(Len(partnerships) + 1)

\* A use_invite_code request arrives, whatever else is under way
InviteUseArrives == Arrives("use_invite_code", RequestedCodes)

\* Requests arrive one after the other: none is under way
RequestArrivesAlone ==
    /\ DOMAIN requests = {}
    /\ \/ InviteUseArrives
       \/ \E endpoint \in {"accept_partnership", "decline_partnership", "end_partnership"} :
             Arrives(endpoint, PartnershipIds)

\* The handler of the request moves on, to pc with the row it read
Continue(request, pc, data) ==
    /\ requests' = Put(requests, [request EXCEPT !.pc = pc, !.data = data])
    /\ UNCHANGED social_response

\* The handler of the request returns or raises
Finish(request, outcome) ==
    /\ requests' = [rid \in DOMAIN requests \ {request.rid} |-> requests[rid]]
    /\ social_response' = Some(outcome)

\* use_invite_code: select of the code and its validation (lines 123-145)
UseSelectInvite ==
    \E number \in DOMAIN requests : LET request == requests[number] IN
        /\ request.endpoint = "use_invite_code" /\ request.pc = "select"
        /\ LET i == SingleWhere(invite_codes, LAMBDA row : row.code = Upper(request.target))
               invite == invite_codes[i]
           IN  IF i = 0
               THEN Finish(request, HTTPException(request, 404, "Invite code not found"))
               ELSE IF invite.expires_at < now
               THEN Finish(request, HTTPException(request, 400, "Invite code has expired"))
               ELSE IF invite.use_count >= invite.max_uses
               THEN Finish(request, HTTPException(request, 400, "Invite code has been used"))
               ELSE IF invite.created_by = request.user
               THEN Finish(request, HTTPException(request, 400, "Cannot use your own invite code"))
               ELSE Continue(request, "select_existing", Some(invite))
        /\ UNCHANGED <<invite_codes, partnerships, created_from, started, now>>
        /\ SocialFrame

\* use_invite_code: select of a pending or active partnership of the two users
UseSelectExisting ==
    \E number \in DOMAIN requests : LET request == requests[number] IN
        /\ request.endpoint = "use_invite_code" /\ request.pc = "select_existing"
        /\ LET inviter_id == Val(request.data).created_by
               existing == {i \in 1..Len(partnerships) :
                               /\ \/ /\ partnerships[i].inviter_id = inviter_id
                                     /\ partnerships[i].invitee_id = request.user
                                  \/ /\ partnerships[i].inviter_id = request.user
                                     /\ partnerships[i].invitee_id = inviter_id
                               /\ partnerships[i].status \in {"pending", "active"}}
           IN  IF existing # {}
               THEN Finish(request, HTTPException(request, 400, "Partnership already exists with this user"))
               ELSE Continue(request, "insert", request.data)
        /\ UNCHANGED <<invite_codes, partnerships, created_from, started, now>>
        /\ SocialFrame

\* use_invite_code: insert of the pending partnership, with the
\* duration_weeks of the request body
UseInsertPartnership ==
    \E number \in DOMAIN requests : LET request == requests[number] IN
        /\ request.endpoint = "use_invite_code" /\ request.pc = "insert"
        /\ \E duration_weeks \in {None, Some(4)} :
              partnerships' = Append(partnerships,
                  [id |-> Len(partnerships) + 1,
                   inviter_id |-> Val(request.data).created_by, invitee_id |-> request.user,
                   status |-> "pending", duration_weeks |-> duration_weeks,
                   started_at |-> None, expires_at |-> None])
        /\ created_from' = Append(created_from, Val(request.data).code)
        /\ Continue(request, "update", request.data)
        /\ UNCHANGED <<invite_codes, started, now>>
        /\ SocialFrame

\* use_invite_code: update of use_count to the count read plus one, then return
UseUpdateCount ==
    \E number \in DOMAIN requests : LET request == requests[number] IN
        /\ request.endpoint = "use_invite_code" /\ request.pc = "update"
        /\ invite_codes' = [invite_codes EXCEPT ![Val(request.data).id].use_count =
                                Val(request.data).use_count + 1]
        /\ Finish(request, Responded(request))
        /\ UNCHANGED <<partnerships, created_from, started, now>>
        /\ SocialFrame

use_invite_code ==
    \/ UseSelectInvite
    \/ UseSelectExisting
    \/ UseInsertPartnership
    \/ UseUpdateCount

\* The select of accept, decline and end: the row, or 404
SelectPartnership(request, Checked(_)) ==
    /\ request.pc = "select"
    /\ IF request.target \notin 1..Len(partnerships)
       THEN Finish(request, HTTPException(request, 404, "Partnership not found"))
       ELSE Checked(partnerships[request.target])
    /\ UNCHANGED <<invite_codes, partnerships, created_from, started, now>>
    /\ SocialFrame

\* The update of accept, decline and end, then return
UpdatePartnership(request, row) ==
    /\ request.pc = "update"
    /\ partnerships' = [partnerships EXCEPT ![request.target] = row]
    /\ Finish(request, Responded(request))
    /\ UNCHANGED <<invite_codes, created_from, started, now>>
    /\ SocialFrame

\* accept_partnership: select and checks (lines 256-272)
AcceptSelect ==
    \E number \in DOMAIN requests : LET request == requests[number] IN
        /\ request.endpoint = "accept_partnership"
        /\ SelectPartnership(request, LAMBDA p :
               IF p.status # "pending"
               THEN Finish(request, HTTPException(request, 400, "Partnership is not pending"))
               ELSE IF p.inviter_id # request.user
               THEN Finish(request, HTTPException(request, 403, "Only the inviter can accept"))
               ELSE Continue(request, "update", Some(p)))

\* accept_partnership: update to active (lines 274-286)
AcceptUpdate ==
    \E number \in DOMAIN requests : LET request == requests[number] IN
        /\ request.endpoint = "accept_partnership"
        /\ UpdatePartnership(request,
               LET p == Val(request.data)
                   started_row == [partnerships[request.target] EXCEPT
                                      !.status = "active", !.started_at = Some(now)]
               IN  IF ~IsNone(p.duration_weeks)
                   THEN [started_row EXCEPT !.expires_at = Some(now + 7 * Val(p.duration_weeks))]
                   ELSE started_row)

accept_partnership == AcceptSelect \/ AcceptUpdate

\* Variant in which only the invitee can decline.
DeclinePermittedInviteeOnly(p, current_user) == p.invitee_id = current_user

\* decline_partnership: either party can decline
DeclinePermitted(p, current_user) == ~(p.inviter_id # current_user /\ p.invitee_id # current_user)

\* decline_partnership: select and checks (lines 310-326)
DeclineSelect ==
    \E number \in DOMAIN requests : LET request == requests[number] IN
        /\ request.endpoint = "decline_partnership"
        /\ SelectPartnership(request, LAMBDA p :
               IF p.status # "pending"
               THEN Finish(request, HTTPException(request, 400, "Partnership is not pending"))
               ELSE IF ~DeclinePermitted(p, request.user)
               THEN Finish(request, HTTPException(request, 403, "Not your partnership"))
               ELSE Continue(request, "update", Some(p)))

\* decline_partnership: update to declined
DeclineUpdate ==
    \E number \in DOMAIN requests : LET request == requests[number] IN
        /\ request.endpoint = "decline_partnership"
        /\ UpdatePartnership(request, [partnerships[request.target] EXCEPT !.status = "declined"])

decline_partnership == DeclineSelect \/ DeclineUpdate

\* end_partnership: select and check of the caller (lines 346-358)
EndSelect ==
    \E number \in DOMAIN requests : LET request == requests[number] IN
        /\ request.endpoint = "end_partnership"
        /\ SelectPartnership(request, LAMBDA p :
               IF p.inviter_id # request.user /\ p.invitee_id # request.user
               THEN Finish(request, HTTPException(request, 403, "Not your partnership"))
               ELSE Continue(request, "update", Some(p)))

\* end_partnership: update to ended
EndUpdate ==
    \E number \in DOMAIN requests : LET request == requests[number] IN
        /\ request.endpoint = "end_partnership"
        /\ UpdatePartnership(request, [partnerships[request.target] EXCEPT !.status = "ended"])

end_partnership == EndSelect \/ EndUpdate

\* datetime.now(timezone.utc) moves on by eight days
DaysPass ==
    /\ now < MaxDay
    /\ now' = now + 8
    /\ UNCHANGED <<invite_codes, partnerships, created_from, requests, started, social_response>>
    /\ SocialFrame

\* Invite codes with use_invite_code requests that may overlap
NextInviteCodes ==
    \/ InviteUseArrives
    \/ create_invite_code
    \/ use_invite_code
    \/ DaysPass

SpecInviteCodes == InitSocial /\ [][NextInviteCodes]_vars

\* All social requests, served one at a time
NextSocial ==
    \/ RequestArrivesAlone
    \/ create_invite_code
    \/ use_invite_code
    \/ accept_partnership
    \/ decline_partnership
    \/ end_partnership
    \/ DaysPass

SpecSocial == InitSocial /\ [][NextSocial]_vars

\* ------------------------------------------------------------------------
\* Training plans   (backend/app/api/training_plans.py)
\* activate_plan and deactivate_plan on table user_training_plans; a row id
\* is the row's position in the table.  Requests do not overlap: a handler
\* is one step.
\* ------------------------------------------------------------------------
MaxPlanRequests == 3

PlanUsers == {"ana", "ben"}

\* The ids of table plan_templates, and an id that is in no row
PlanTemplates == {"ppl_3_day", "upper_lower_4_day"}

RequestedTemplates == PlanTemplates \cup {"no_such_template"}

\* Variant that leaves the existing plans as they are.
DeactivateActiveNone(table, user_id) == table

\* update({"is_active": False}).eq("user_id", ...).eq("is_active", True)
DeactivateActive(table, user_id) ==
    [i \in 1..Len(table) |->
        IF table[i].user_id = user_id /\ table[i].is_active
        THEN [table[i] EXCEPT !.is_active = FALSE] ELSE table[i]]

\* The plan that complete_onboarding inserts for a user with training
\* preferences (users.py)
OnboardingPlan(user_id) ==
    [user_id |-> user_id, template_id |-> "ppl_3_day", is_active |-> TRUE]

\* Each user has the plan of their onboarding or no plan
InitTrainingPlans ==
    /\ \E onboarded \in SUBSET PlanUsers :
          \E order \in [1..Cardinality(onboarded) -> onboarded] :
             /\ \A i, j \in DOMAIN order : i # j => order[i] # order[j]
             /\ user_training_plans = [i \in DOMAIN order |-> OnboardingPlan(order[i])]
    /\ plan_response = None
    /\ plan_requests = 0
    /\ IdleRecovery
    /\ IdleProgression
    /\ IdleAdherence
    /\ IdleDashboard
    /\ IdleCalculatorsExcept("training_plans")

PlanFrame ==
    /\ UNCHANGED <<recVars, progVars, adhVars, dashVars>>
    /\ OtherCalculatorsUnchanged("training_plans")

PlanResponse(endpoint, user_id, status_code, plan_id) ==
    Some([rid |-> plan_requests + 1, endpoint |-> endpoint, user |-> user_id,
          status_code |-> status_code, plan_id |-> plan_id])

activate_plan ==
    /\ plan_requests < MaxPlanRequests
    /\ plan_requests' = plan_requests + 1
    /\ \E current_user \in PlanUsers, template_id \in RequestedTemplates :
          IF template_id \notin PlanTemplates
          THEN /\ plan_response' = PlanResponse("activate_plan", current_user, 404, None)
               /\ UNCHANGED user_training_plans
          ELSE LET deactivated == DeactivateActive(user_training_plans, current_user)
                   plan_data == [user_id |-> current_user, template_id |-> template_id,
                                 is_active |-> TRUE]
               IN  /\ user_training_plans' = Append(deactivated, plan_data)
                   /\ plan_response' = PlanResponse("activate_plan", current_user, 200,
                                                    Some(Len(deactivated) + 1))
    /\ PlanFrame

deactivate_plan ==
    /\ plan_requests < MaxPlanRequests
    /\ plan_requests' = plan_requests + 1
    /\ \E current_user \in PlanUsers :
          /\ user_training_plans' = DeactivateActive(user_training_plans, current_user)
          /\ plan_response' = PlanResponse("deactivate_plan", current_user, 200, None)
    /\ PlanFrame

NextTrainingPlans ==
    \/ activate_plan
    \/ deactivate_plan

SpecTrainingPlans == InitTrainingPlans /\ [][NextTrainingPlans]_vars

\* ------------------------------------------------------------------------
\* ExerciseService.log_sets and the personal records
\* (backend/app/services/exercise_service.py)
\* Table personal_records in order of insertion; a row id is the row's
\* position.  Calls do not overlap: one call is one step.
\* ------------------------------------------------------------------------
MaxLogCalls == 2

\* pr_type_map.get(reps)
pr_type_map(reps) ==
    CASE reps = 1 -> Some("1rm")
      [] reps = 3 -> Some("3rm")
      [] reps = 5 -> Some("5rm")
      [] reps = 10 -> Some("10rm")
      [] OTHER -> None

\* Variant in which a set that equals the record is a record too.
BeatsRecordOrEquals(weight_kg, value) == RLe(value, weight_kg)

\* weight_kg > current_pr["value"]
BeatsRecord(weight_kg, value) == RLt(value, weight_kg)

\* _check_and_update_pr: the table it leaves and the flag it returns
_check_and_update_pr(records, user_id, exercise_id, weight_kg, reps) ==
    LET pr_type == pr_type_map(reps) IN
    IF IsNone(pr_type) THEN [records |-> records, is_pr |-> FALSE]
    ELSE LET existing == SelectSeq([i \in 1..Len(records) |-> i], LAMBDA i :
                             /\ records[i].user_id = user_id
                             /\ records[i].exercise_id = exercise_id
                             /\ records[i].record_type = Val(pr_type))
         IN  IF existing # <<>>
             THEN LET current_pr == records[existing[1]]
                  IN  IF BeatsRecord(weight_kg, current_pr.value)
                      THEN [records |-> [records EXCEPT ![existing[1]] =
                                            [current_pr EXCEPT !.previous_value = Some(current_pr.value),
                                                               !.value = weight_kg]],
                            is_pr |-> TRUE]
                      ELSE [records |-> records, is_pr |-> FALSE]
             ELSE [records |-> Append(records,
                                  [user_id |-> user_id, exercise_id |-> exercise_id,
                                   record_type |-> Val(pr_type), value |-> weight_kg,
                                   previous_value |-> None]),
                   is_pr |-> TRUE]

RECURSIVE LogSetsFrom(_, _, _, _)
\* The loop of log_sets over the sets not yet logged
LogSetsFrom(records, user_id, sets, created_sets) ==
    IF sets = <<>> THEN [records |-> records, created_sets |-> created_sets]
    ELSE LET set_data == Head(sets)
             checked == IF ~set_data.is_warmup
                        THEN _check_and_update_pr(records, user_id, set_data.exercise_id,
                                                  set_data.weight_kg, set_data.reps)
                        ELSE [records |-> records, is_pr |-> FALSE]
             record == [user_id |-> user_id, exercise_id |-> set_data.exercise_id,
                        weight_kg |-> set_data.weight_kg, reps |-> set_data.reps,
                        is_warmup |-> set_data.is_warmup, is_pr |-> checked.is_pr]
         IN  LogSetsFrom(checked.records, user_id, Tail(sets), Append(created_sets, record))

LogUsers == {"ana", "ben"}

Squats ==
    [exercise_id : {"squat"}, weight_kg : {I(60), I(80), Rat(1625, 2)}, reps : {1, 5, 8},
     is_warmup : BOOLEAN]

BenchSet(weight_kg) ==
    [exercise_id |-> "bench", weight_kg |-> weight_kg, reps |-> 5, is_warmup |-> FALSE]

\* The sets of one call: one squat set, two squat sets of five, or a bench
\* set before or after a squat set
SetLists ==
    {<<st>> : st \in Squats}
    \cup {<<a, b>> : a \in {st \in Squats : st.reps = 5},
                      b \in {st \in Squats : st.reps = 5 /\ ~st.is_warmup}}
    \cup {<<BenchSet(I(60)), st>> : st \in {x \in Squats : x.reps = 5 /\ ~x.is_warmup}}
    \cup {<<st, BenchSet(I(80))>> : st \in {x \in Squats : x.reps = 1 /\ ~x.is_warmup}}

InitLogSets ==
    /\ personal_records = <<>>
    /\ log_call = None
    /\ log_calls = 0
    /\ IdleRecovery
    /\ IdleProgression
    /\ IdleAdherence
    /\ IdleDashboard
    /\ IdleCalculatorsExcept("log_sets")

log_sets ==
    /\ log_calls < MaxLogCalls
    /\ log_calls' = log_calls + 1
    /\ \E user_id \in LogUsers, sets \in SetLists :
          LET logged == LogSetsFrom(personal_records, user_id, sets, <<>>)
          IN  /\ personal_records' = logged.records
              /\ log_call' = Some([user_id |-> user_id, sets |-> sets,
                                   created_sets |-> logged.created_sets])
    /\ UNCHANGED <<recVars, progVars, adhVars, dashVars>>
    /\ OtherCalculatorsUnchanged("log_sets")

NextLogSets == log_sets

SpecLogSets == InitLogSets /\ [][NextLogSets]_vars

\* ------------------------------------------------------------------------
\* Properties of calculate_nutrition_score
\* ------------------------------------------------------------------------
NutritionReturned == nut_out.called /\ ~nut_out.exc

\* r is x rounded to a multiple of 1/scale: a whole number of such units at
\* distance at most half a unit from x.
IsRounding(r, x, scale) ==
    /\ RMul(r, I(scale))[2] = 1
    /\ RLe(RAbs(RSub(r, x)), Rat(1, 2 * scale))

C11Calorie == _calculate_adherence_score(nut_in.calories_consumed, nut_in.calorie_target, "calories")

C11MacroMean ==
    RDiv(RAdd(RAdd(_calculate_adherence_score(nut_in.protein_consumed, nut_in.protein_target, "protein"),
                   _calculate_adherence_score(nut_in.carbs_consumed, nut_in.carbs_target, "carbs")),
              _calculate_adherence_score(nut_in.fat_consumed, nut_in.fat_target, "fat")),
         I(3))

C11Consistency == RMin(I(100), Rat(nut_in.days_logged_this_week * 100, 7))

C11Overall ==
    RAdd(RAdd(RMul(Rat(40, 100), C11Calorie), RMul(Rat(40, 100), C11MacroMean)),
         RMul(Rat(20, 100), C11Consistency))

C11ValidInput ==
    /\ nut_in.calories_consumed >= 0 /\ nut_in.protein_consumed >= 0
    /\ nut_in.carbs_consumed >= 0 /\ nut_in.fat_consumed >= 0
    /\ nut_in.days_logged_this_week \in 0..7

\* A nutrient whose target is <= 0 is reported with ratio 0.
C11ZeroTargets ==
    LET f == nut_out.value.contributing_factors
    IN  /\ nut_in.calorie_target <= 0 => f.calories.ratio = I(0)
        /\ nut_in.protein_target <= 0 => f.protein.ratio = I(0)
        /\ nut_in.carbs_target <= 0 => f.carbs.ratio = I(0)
        /\ nut_in.fat_target <= 0 => f.fat.ratio = I(0)

C11InRange ==
    C11ValidInput => /\ RLe(I(0), nut_out.value.overall_score)
                     /\ RLe(nut_out.value.overall_score, I(100))

\* C11 as stated: the returned overall_score is the weighted sum itself.
C11_Original ==
    nut_out.called =>
        /\ ~nut_out.exc
        /\ nut_out.value.overall_score = C11Overall
        /\ C11InRange
        /\ C11ZeroTargets

\* C11 (amended): calculate_nutrition_score returns; its overall_score is
\* 0.40 * calorie adherence + 0.40 * mean macro adherence + 0.20 * consistency,
\* consistency = min(100, days/7*100), rounded to one decimal place; it lies in
\* [0, 100] for non-negative amounts and 0..7 days; a nutrient with target <= 0
\* is scored with ratio 0 instead of dividing by zero.
C11_RoundedWeightedScore ==
    nut_out.called =>
        /\ ~nut_out.exc
        /\ IsRounding(nut_out.value.overall_score, C11Overall, 10)
        /\ C11InRange
        /\ C11ZeroTargets

\* A call with a zero calorie target and three logged days has returned; its
\* weighted sum 0.4*50 + 0.4*100 + 0.2*42.857.. is reported as 68.6.
C11_Witness ==
    /\ NutritionReturned
    /\ nut_in.calorie_target = 0 /\ nut_in.days_logged_this_week = 3
    /\ nut_in.protein_consumed = 150 /\ nut_in.protein_target = 150
    /\ nut_in.carbs_consumed = 250 /\ nut_in.fat_consumed = 70 /\ nut_in.fat_target = 70
    /\ nut_out.value.overall_score = Rat(686, 10)
    /\ nut_out.value.contributing_factors.calories.ratio = I(0)

\* ------------------------------------------------------------------------
\* Properties of calculate_targets
\* ------------------------------------------------------------------------
TargetsReturned == tgt_out.called /\ ~tgt_out.exc

\* Mifflin-St Jeor: +5 for 'male' in any letter case, -161 otherwise.
C12Bmr ==
    LET base == RSub(RAdd(RMul(I(10), tgt_in.weight_kg), RMul(Rat(25, 4), tgt_in.height_cm)),
                     I(5 * tgt_in.age))
    IN  IF tgt_in.gender \in {"male", "Male", "MALE"} THEN RAdd(base, I(5)) ELSE RSub(base, I(161))

C12Multiplier ==
    CASE tgt_in.activity_level = "sedentary" -> Rat(12, 10)
      [] tgt_in.activity_level = "light" -> Rat(1375, 1000)
      [] tgt_in.activity_level = "moderate" -> Rat(155, 100)
      [] tgt_in.activity_level \in {"active", "Active"} -> Rat(1725, 1000)
      [] tgt_in.activity_level = "very_active" -> Rat(19, 10)
      [] OTHER -> Rat(155, 100)

C12Tdee == RAdd(RMul(C12Bmr, C12Multiplier), tgt_in.activity_adjustment)

C12CalorieTarget ==
    IF tgt_in.custom_calorie_target # None THEN tgt_in.custom_calorie_target[1]
    ELSE CASE tgt_in.goal_type = "lose_weight" -> RSub(C12Tdee, I(500))
           [] tgt_in.goal_type = "build_muscle" -> RAdd(C12Tdee, I(300))
           [] OTHER -> C12Tdee

C12ExampleInput ==
    /\ tgt_in.weight_kg = I(70) /\ tgt_in.height_cm = I(175)
    /\ tgt_in.age = 30 /\ tgt_in.gender = "male"

\* C12 as stated: the targets carry BMR, TDEE and calorie target as computed,
\* and the example BMR is 1673.75.
C12_Original ==
    TargetsReturned =>
        /\ tgt_out.value.bmr = C12Bmr
        /\ tgt_out.value.tdee = C12Tdee
        /\ tgt_out.value.calorie_target = C12CalorieTarget
        /\ C12ExampleInput => tgt_out.value.bmr = Rat(167375, 100)

\* C12 (amended): BMR = 10*weight + 6.25*height - 5*age + 5 for 'male' in any
\* letter case and - 161 otherwise (70 kg, 175 cm, 30 y, male gives 1648.75);
\* TDEE = BMR * multiplier + activity_adjustment with the stated multipliers
\* and 1.55 for an unknown level; calorie target = the custom override, else
\* TDEE - 500 / + 300 / + 0 by goal; the returned NutritionTargets carries each
\* of the three rounded to one decimal place (1648.75 is reported as 1648.8).
C12_TargetsRounded ==
    tgt_out.called =>
        /\ ~tgt_out.exc
        /\ IsRounding(tgt_out.value.bmr, C12Bmr, 10)
        /\ IsRounding(tgt_out.value.tdee, C12Tdee, 10)
        /\ IsRounding(tgt_out.value.calorie_target, C12CalorieTarget, 10)
        /\ C12ExampleInput => /\ C12Bmr = Rat(164875, 100)
                              /\ tgt_out.value.bmr = Rat(16488, 10)

\* The example person at an unknown activity level with goal lose_weight:
\* BMR 1648.75, TDEE 1648.75 * 1.55 = 2555.5625, target 2055.5625 -> 2055.6.
C12_Witness ==
    /\ TargetsReturned /\ C12ExampleInput
    /\ tgt_in.activity_level = "athlete" /\ tgt_in.goal_type = "lose_weight"
    /\ tgt_in.activity_adjustment = I(0) /\ tgt_in.custom_calorie_target = None
    /\ tgt_out.value.bmr = Rat(16488, 10)
    /\ tgt_out.value.calorie_target = Rat(20556, 10)

\* ------------------------------------------------------------------------
\* Properties of calculate_readiness_score
\* ------------------------------------------------------------------------
ReadinessReturned == ready_out.called /\ ~ready_out.exc

C13RestScore ==
    LET d == ready_in.days_since_hard_workout
    IN  IF d = 0 THEN 40 ELSE IF d \in {1, 2, 3} THEN 90 ELSE IF d > 5 THEN 70 ELSE 80

C13Score ==
    RAdd(RAdd(RAdd(RAdd(RMul(Rat(35, 100), ready_in.recovery_score),
                        RMul(Rat(20, 100), ready_in.sleep_quality)),
                   RMul(Rat(15, 100), I(C13RestScore))),
              RMul(Rat(15, 100), RMul(ready_in.energy_level, I(10)))),
         RMul(Rat(15, 100), RMul(RSub(I(10), ready_in.muscle_soreness), I(10))))

\* C13 as stated: the returned score is the weighted sum itself.
C13_Original ==
    ReadinessReturned =>
        /\ ready_out.value.factors.rest_days.score = I(C13RestScore)
        /\ ready_out.value.score = C13Score
        /\ ready_out.value.confidence = Rat(85, 100)

\* C13 (amended): the rest-days factor scores 40 at 0 days, 90 at 1..3 days,
\* 70 above 5 days and 80 otherwise; the returned readiness score is
\* 0.35*recovery + 0.20*sleep quality + 0.15*rest + 0.15*energy*10 +
\* 0.15*(10 - soreness)*10 rounded to one decimal place; confidence is 0.85.
C13_RestScoreAndRoundedScore ==
    ready_out.called =>
        /\ ~ready_out.exc
        /\ ready_out.value.factors.rest_days.score = I(C13RestScore)
        /\ IsRounding(ready_out.value.score, C13Score, 10)
        /\ ready_out.value.confidence = Rat(85, 100)

\* Recovery 45.7 the day of a hard workout: rest scores 40 and the weighted
\* sum 15.995 + 14 + 6 + 10.5 + 10.5 = 56.995 is returned as 57.0.
C13_Witness ==
    /\ ReadinessReturned
    /\ ready_in.recovery_score = Rat(457, 10) /\ ready_in.sleep_quality = I(70)
    /\ ready_in.days_since_hard_workout = 0
    /\ ready_in.energy_level = I(7) /\ ready_in.muscle_soreness = I(3)
    /\ ready_out.value.factors.rest_days.score = I(40)
    /\ C13Score = Rat(56995, 1000)
    /\ ready_out.value.score = I(57)

\* ------------------------------------------------------------------------
\* Properties of calculate_wellness_score
\* ------------------------------------------------------------------------
C19History == IF well_in.previous_scores = None THEN <<>> ELSE well_in.previous_scores[1]

C19RecentMean == Mean(SubSeq(C19History, Len(C19History) - 2, Len(C19History)))

C19OlderMean == Mean(SubSeq(C19History, 1, Len(C19History) - 3))

\* C19: the trend is 'stable' without previous scores or with at most 3 of
\* them; otherwise 'improving' when the mean of the last 3 is more than 5 above
\* the mean of the others, 'declining' when it is more than 5 below, 'stable'
\* in between; the call never raises.
C19_TrendRule ==
    well_out.called =>
        /\ ~well_out.exc
        /\ well_out.value.trend =
             IF Len(C19History) <= 3 THEN "stable"
             ELSE IF RLt(RAdd(C19OlderMean, I(5)), C19RecentMean) THEN "improving"
             ELSE IF RLt(C19RecentMean, RSub(C19OlderMean, I(5))) THEN "declining"
             ELSE "stable"

\* ------------------------------------------------------------------------
\* Properties of the wellness endpoints
\* ------------------------------------------------------------------------
WellnessResultFields == {"overall_score", "components", "trend", "comparison_to_baseline"}

\* C14: every wellness result handed to the API layer (stored, fresh, or an
\* entry of the history) carries overall_score, components, trend and
\* comparison_to_baseline, and the endpoints' reads of them never fail.
C14_WellnessResultFields ==
    /\ (wapi_result.called /\ wapi_req.endpoint = "wellness")
         => WellnessResultFields \subseteq DOMAIN wapi_result.value
    /\ (wapi_result.called /\ wapi_req.endpoint = "wellness_history")
         => \A i \in 1..Len(wapi_result.value) :
               WellnessResultFields \subseteq DOMAIN wapi_result.value[i]
    /\ wapi_response.called => ~wapi_response.exc

\* ------------------------------------------------------------------------
\* Properties of analyze_correlations
\* ------------------------------------------------------------------------
CorrelationsReturned == corr_out.called /\ ~corr_out.exc

\* The overlapping (truncated to the shorter length) values of a pair
C15Overlap(type_a, type_b) ==
    Min(Len(ValuesOf(corr_in, type_a)), Len(ValuesOf(corr_in, type_b)))
C15Array(type, n) == SubSeq(ValuesOf(corr_in, type), 1, n)

C15EmptyBelowTen ==
    CorrelationsReturned /\ Len(corr_in) < 10 => corr_out.value = <<>>

C15EntriesPassFilter ==
    CorrelationsReturned =>
        \A i \in 1..Len(corr_out.value) :
            LET e == corr_out.value[i]
            IN  /\ e.factor_a # e.factor_b
                /\ e.data_points = C15Overlap(e.factor_a, e.factor_b)
                /\ e.data_points >= 5
                /\ RLt(Rat(3, 10), RAbs(e.correlation))
                /\ RLe(RAbs(e.correlation), I(1))
                /\ e.confidence = RMin(Rat(95, 100), Rat(e.data_points, 30))

C15ConstantNeverReturned ==
    CorrelationsReturned =>
        \A i \in 1..Len(corr_out.value) :
            LET e == corr_out.value[i]
            IN  /\ ~IsConstant(C15Array(e.factor_a, e.data_points))
                /\ ~IsConstant(C15Array(e.factor_b, e.data_points))

\* arr_b falls by the same multiple of what arr_a rises by, everywhere
C15AntiCorrelated(arr_a, arr_b) ==
    /\ ~IsConstant(arr_a)
    /\ ~IsConstant(arr_b)
    /\ RLt(Covariance(arr_a, arr_b), I(0))
    /\ RMul(Covariance(arr_a, arr_b), Covariance(arr_a, arr_b))
           = RMul(Covariance(arr_a, arr_a), Covariance(arr_b, arr_b))

C15AntiCorrelatedKept ==
    CorrelationsReturned /\ Len(corr_in) >= 10 =>
        LET metric_types == KeysOf(corr_in)
        IN  \A i \in 1..Len(metric_types) : \A j \in (i + 1)..Len(metric_types) :
                LET n == C15Overlap(metric_types[i], metric_types[j])
                IN  n >= 5 /\ C15AntiCorrelated(C15Array(metric_types[i], n),
                                                C15Array(metric_types[j], n))
                    => \E k \in 1..Len(corr_kept) :
                          /\ corr_kept[k].factor_a = metric_types[i]
                          /\ corr_kept[k].factor_b = metric_types[j]
                          /\ corr_kept[k].correlation = I(-1)

\* C15: analyze_correlations returns an empty list below 10 samples; every
\* returned insight is of two distinct metric types with at least 5
\* overlapping values, neither array constant, |correlation| > 0.3 and at
\* most 1, confidence = min(0.95, data_points / 30); a perfectly
\* anti-correlated pair of at least 5 values passes the filter with
\* correlation -1.0.
C15_CorrelationFilter ==
    /\ C15EmptyBelowTen
    /\ C15EntriesPassFilter
    /\ C15ConstantNeverReturned
    /\ C15AntiCorrelatedKept

\* ------------------------------------------------------------------------
C16Strength(e) == RAbs(e.correlation)
C16Pair(e) == {e.factor_a, e.factor_b}
C16Returned(e) == \E i \in 1..Len(corr_out.value) : corr_out.value[i] = e

\* C16: the returned list is ordered by |correlation| non-increasing, holds
\* at most 10 insights, holds each unordered pair of metric types at most
\* once, is made of the insights that passed the filter, and when more than
\* 10 passed, no insight left out is stronger than one returned.
C16_RankedTopTen ==
    CorrelationsReturned =>
        LET out == corr_out.value
        IN  /\ Len(out) <= 10
            /\ Len(out) = Min(10, Len(corr_kept))
            /\ \A i \in 1..Len(out) : \A j \in (i + 1)..Len(out) :
                  /\ RLe(C16Strength(out[j]), C16Strength(out[i]))
                  /\ C16Pair(out[i]) # C16Pair(out[j])
            /\ \A i \in 1..Len(out) : \E k \in 1..Len(corr_kept) : corr_kept[k] = out[i]
            /\ \A k \in 1..Len(corr_kept) :
                  ~C16Returned(corr_kept[k])
                  => \A i \in 1..Len(out) : RLe(C16Strength(corr_kept[k]), C16Strength(out[i]))

\* More than 10 pairs passed, of two different strengths, the sort moved a
\* stronger insight ahead of a weaker one and a weaker one was cut.
C16_Witness ==
    /\ CorrelationsReturned
    /\ Len(corr_kept) > 10
    /\ \E k \in 1..(Len(corr_kept) - 1) :
          RLt(C16Strength(corr_kept[k]), C16Strength(corr_kept[k + 1]))
    /\ \E k \in 1..Len(corr_kept) :
          /\ ~C16Returned(corr_kept[k])
          /\ RLt(C16Strength(corr_kept[k]), C16Strength(corr_out.value[10]))

\* ------------------------------------------------------------------------
\* Properties of _generate_recommendations
\* ------------------------------------------------------------------------
DashboardResponded == dash_pc = "done"

\* The rules in the order of the code, each with whether its condition holds
\* for the inputs get_dashboard passed on
C17Rules ==
    <<[rule |-> "sleep",
       fired |-> /\ ~IsNone(enhanced_recovery.sleep_deficit_hours)
                 /\ Val(enhanced_recovery.sleep_deficit_hours) > 1],
      [rule |-> "recovery", fired |-> enhanced_recovery.score < 60],
      [rule |-> "workout",
       fired |-> \E i \in 1..Len(progress.muscle_balance) :
                    LET m == progress.muscle_balance[i]
                    IN  /\ m.status = "recovered"
                        /\ ~IsNone(m.days_since_trained)
                        /\ Val(m.days_since_trained) >= 3],
      [rule |-> "nutrition", fired |-> weekly.nutrition_adherence_pct < 60],
      [rule |-> "progress", fired |-> progress.volume_trend_pct < -20],
      [rule |-> "pr", fired |-> progress.recent_prs # <<>>]>>

C17Fired == SelectSeq(C17Rules, LAMBDA r : r.fired)

\* C17: the recommendations are at most 5, sorted by priority ascending,
\* and are those of the rules that fired, in rule order, less the ones cut
\* by the truncation to 5.
C17_RecommendationsOfFiredRules ==
    DashboardResponded =>
        LET recs == response.recommendations
        IN  /\ Len(recs) <= 5
            /\ \A i \in 1..Len(recs) : \A j \in (i + 1)..Len(recs) :
                  recs[i].priority <= recs[j].priority
            /\ Len(recs) = Min(5, Len(C17Fired))
            /\ \A i \in 1..Len(recs) : recs[i].id[1] = C17Fired[i].rule

\* All six rules fired and the truncation cut the last one.
C17_Witness ==
    /\ DashboardResponded
    /\ Len(C17Fired) = 6
    /\ Len(response.recommendations) = 5
    /\ response.recommendations[5].id = <<"progress", 5>>

\* ------------------------------------------------------------------------
\* Properties of the weight tables and of WellnessCalculator.calculate
\* ------------------------------------------------------------------------
WellnessCalculated == wc_out.called /\ ~wc_out.exc

RECURSIVE C18Sum(_, _)
C18Sum(table, names) ==
    IF names = {} THEN I(0)
    ELSE LET n == CHOOSE x \in names : TRUE
         IN  RAdd(table[n], C18Sum(table, names \ {n}))

C18TablesSumToOne ==
    /\ C18Sum([n \in DOMAIN RECOVERY_WEIGHTS |-> Rat(RECOVERY_WEIGHTS[n], 100)],
              DOMAIN RECOVERY_WEIGHTS) = I(1)
    /\ C18Sum(READINESS_WEIGHTS, DOMAIN READINESS_WEIGHTS) = I(1)
    /\ C18Sum(WELLNESS_WEIGHTS, DOMAIN WELLNESS_WEIGHTS) = I(1)
    /\ C18Sum(WEIGHTS, DOMAIN WEIGHTS) = I(1)
    /\ WEIGHTS = [sleep |-> Rat(20, 100), activity |-> Rat(20, 100), recovery |-> Rat(15, 100),
                  mental |-> Rat(15, 100), nutrition |-> Rat(20, 100),
                  training_load |-> Rat(10, 100)]

\* The six component scores of the returned breakdown
C18Components ==
    <<wc_out.value.activity_score, wc_out.value.sleep_score, wc_out.value.recovery_score,
      wc_out.value.mental_score, wc_out.value.nutrition_score,
      wc_out.value.training_load_score>>

C18InRange ==
    /\ \E i \in 1..6 : RLe(C18Components[i], wc_out.value.overall_score)
    /\ \E i \in 1..6 : RLe(wc_out.value.overall_score, C18Components[i])

\* C18 as stated: the weight tables sum to 1, and the overall score is the
\* weighted sum of the six component scores and lies between the smallest
\* and the largest of them.
C18_Original ==
    /\ C18TablesSumToOne
    /\ WellnessCalculated =>
          /\ wc_out.value.overall_score = WeightedOverall(ComponentScores(wc_in))
          /\ C18InRange

\* C18, amended: the weight tables sum to 1, and the overall score is the
\* weighted sum of the six component scores before their rounding, rounded
\* to one decimal, and lies between the smallest and the largest returned
\* component score.
C18_WeightsSumToOneRoundedOverall ==
    /\ C18TablesSumToOne
    /\ WellnessCalculated =>
          /\ IsRounding(wc_out.value.overall_score, WeightedOverall(ComponentScores(wc_in)), 10)
          /\ C18InRange

\* Metrics were given, the components differ and the weighted sum has more
\* than one decimal, so the rounding changed it.
C18_Witness ==
    /\ WellnessCalculated
    /\ ~IsNone(wc_in.energy_level)
    /\ ~IsNone(wc_in.steps)
    /\ \E i \in 1..6 : RLt(C18Components[i], wc_out.value.overall_score)
    /\ \E i \in 1..6 : RLt(wc_out.value.overall_score, C18Components[i])
    /\ wc_out.value.overall_score # WeightedOverall(ComponentScores(wc_in))

\* ------------------------------------------------------------------------
\* Properties of the shared instances
\* ------------------------------------------------------------------------
C20SameCall(i, j) == calls[i].method = calls[j].method /\ calls[i].args = calls[j].args

C21InitThemeRan == runs' = runs + 1

C21Kept(key) == key \in DOMAIN session_state => session_state'[key] = session_state[key]

\* C21: init_theme keeps the value of a 'theme' or 'current_page' key that
\* is present before the call, sets a missing 'theme' to get_default_theme()
\* ('light' exactly when 8 <= hour < 19, else 'dark') and a missing
\* 'current_page' to 'Overview'; every call after the first changes nothing.
C21_InitThemeKeepsExisting ==
    [][C21InitThemeRan =>
          /\ C21Kept("theme")
          /\ C21Kept("current_page")
          /\ "theme" \notin DOMAIN session_state =>
                 session_state'.theme =
                     (IF current_hour \in 8..18 THEN "light" ELSE "dark")
          /\ "current_page" \notin DOMAIN session_state =>
                 session_state'.current_page = "Overview"
          /\ runs >= 1 => session_state' = session_state]_vars

\* Three runs of a session that started with a page but no theme, at an
\* hour of the night, with the theme toggled and a page chosen since.
C21_Witness ==
    /\ runs = 3
    /\ session_state.theme = "light"
    /\ session_state.current_page = "Reports"
    /\ session_state.theme_toggle = FALSE
    /\ current_hour = 20


\* ------------------------------------------------------------------------
\* Properties of _compute_suggestion: the classifier and its history
\* ------------------------------------------------------------------------
C22HoldsSets(sessions) ==
    \E i \in 1..Len(sessions) : \E j \in 1..Len(sessions[i].exercises) :
        /\ sessions[i].exercises[j].name = EX
        /\ sessions[i].exercises[j].sets # <<>>

C22IsNew(result) ==
    /\ result.status = "new"
    /\ IsNone(result.suggested_weight_kg)
    /\ IsNone(result.last_weight_kg)
    /\ IsNone(result.last_reps)
    /\ IsNone(result.last_rpe)

C22Exclusive(sessions) ==
    \A i \in 1..Len(sessions) : \A j \in 1..Len(sessions[i].exercises) :
        LET avg_rpe == AvgRpe(_get_working_sets(sessions[i].exercises[j].sets))
        IN  ~(RLe(I(9), avg_rpe) /\ RLe(avg_rpe, I(8)))

\* C22: _compute_suggestion returns exactly one status of new, increase,
\* maintain, deload and leaves the session history as it was; the status is
\* 'new' with the four values null exactly when no session holds a non-empty
\* set list for the exercise; an average RPE is never both >= 9 and <= 8.
C22_OneStatusNewOnlyWithoutSets ==
    [][(~suggestion.called /\ suggestion'.called) =>
          /\ prog_in' = prog_in
          /\ suggestion'.value.status \in {"new", "increase", "maintain", "deload"}
          /\ suggestion'.value.status = "new" <=> C22IsNew(suggestion'.value)
          /\ C22IsNew(suggestion'.value) <=> ~C22HoldsSets(prog_in.sessions)
          /\ C22Exclusive(prog_in.sessions)]_vars


\* ------------------------------------------------------------------------
\* Properties of _get_working_sets
\* ------------------------------------------------------------------------
C23Latest == prog_in.sessions[1].exercises[1].sets

C23Heaviest(sets) ==
    CHOOSE i \in 1..Len(sets) :
        /\ \A j \in 1..Len(sets) : RLe(sets[j].weight, sets[i].weight)
        /\ \A j \in 1..(i - 1) : sets[j].weight # sets[i].weight

C23IsWorking(sets, i) ==
    LET top == sets[C23Heaviest(sets)].weight
    IN  RLe(top, I(0)) \/ RLe(top, RMul(I(2), sets[i].weight))

C23Kept(sets) ==
    LET kept == SelectSeq([i \in 1..Len(sets) |-> i], LAMBDA i : C23IsWorking(sets, i))
    IN  [k \in 1..Len(kept) |-> sets[kept[k]]]

C23WorkingRpes(sets) ==
    {<<i, Val(sets[i].rpe)>> : i \in {j \in 1..Len(sets) : C23IsWorking(sets, j) /\ ~IsNone(sets[j].rpe)}}

RECURSIVE C23Sum(_)
C23Sum(pairs) ==
    IF pairs = {} THEN 0
    ELSE LET p == CHOOSE q \in pairs : TRUE IN p[2] + C23Sum(pairs \ {p})

C23AvgRpe(sets) ==
    IF C23WorkingRpes(sets) = {} THEN I(7)
    ELSE Rat(C23Sum(C23WorkingRpes(sets)), Cardinality(C23WorkingRpes(sets)))

\* The history with the RPE of every set below the threshold removed
C23WithoutWarmupRpe ==
    [prog_in.sessions EXCEPT ![1].exercises[1].sets =
        [i \in 1..Len(C23Latest) |->
            IF C23IsWorking(C23Latest, i) THEN C23Latest[i]
            ELSE [C23Latest[i] EXCEPT !.rpe = None]]]

\* C23: _get_working_sets keeps exactly the sets at 50% of the session's
\* maximum weight or more (all sets when the maximum is <= 0), so the result
\* of a non-empty set list is non-empty and holds the heaviest set;
\* last_weight and last_reps are those of the heaviest working set, the
\* average RPE is taken over the working sets that carry one (7.0 if none),
\* and the RPE of a set below the threshold does not change the suggestion.
C23_WorkingSetsAtHalfOrMore ==
    suggestion.called =>
        LET working == _get_working_sets(C23Latest)
            top == C23Latest[C23Heaviest(C23Latest)]
        IN  /\ working = C23Kept(C23Latest)
            /\ working # <<>>
            /\ \E i \in 1..Len(working) : working[i] = top
            /\ suggestion.value.last_weight_kg = top.weight
            /\ suggestion.value.last_reps = Some(top.reps)
            /\ suggestion.value.last_rpe = Round(C23AvgRpe(C23Latest), 10)
            /\ suggestion.value =
                   _compute_suggestion(EX, C23WithoutWarmupRpe, prog_in.category)

\* A 100 kg set at RPE 7 after a 40 kg set at RPE 10, in a session that
\* follows one at 100 kg: the 40 kg set is dropped and the suggestion is an
\* increase from 100 kg at RPE 7.0.
C23_Witness ==
    /\ suggestion.called
    /\ Len(prog_in.sessions) = 2
    /\ Len(C23Latest) = 2
    /\ C23Latest[1].weight = I(40) /\ C23Latest[1].rpe = Some(10)
    /\ C23Latest[2].weight = I(100) /\ C23Latest[2].rpe = Some(7)
    /\ Len(_get_working_sets(C23Latest)) = 1
    /\ suggestion.value.status = "increase"
    /\ suggestion.value.last_rpe = I(7)


\* ------------------------------------------------------------------------
\* Properties of the wellness trend of get_wellness_score
\* ------------------------------------------------------------------------
C24Scores(from, to) == [i \in 1..(to - from + 1) |-> wapi_req.history[from + i - 1].wellness_score]

\* C24: the score history is fetched most recent first, and when the three
\* most recent stored scores average more than 5 above the older scores of
\* the history the trend is 'improving', when more than 5 below 'declining'.
C24_TrendFollowsRecency ==
    (wapi_result.called /\ Len(wapi_req.history) > 3) =>
        LET recent == Mean(C24Scores(1, 3))
            older == Mean(C24Scores(4, Len(wapi_req.history)))
        IN  /\ NewestFirst(wapi_req.history)
            /\ RLt(RAdd(older, I(5)), recent) => wapi_result.value.trend = "improving"
            /\ RLt(recent, RSub(older, I(5))) => wapi_result.value.trend = "declining"


\* ------------------------------------------------------------------------
\* Properties of the partnership requests
\* ------------------------------------------------------------------------
C25Becomes(i, status) == partnerships'[i].status = status /\ partnerships[i].status # status

\* C25: a partnership becomes 'ended' only from 'active', and a partnership
\* that is 'declined' or 'ended' never changes its status again.
C25_EndedOnlyFromActive ==
    [][\A i \in 1..Len(partnerships) :
          /\ C25Becomes(i, "ended") => partnerships[i].status = "active"
          /\ partnerships[i].status \in {"declined", "ended"} =>
                 partnerships'[i].status = partnerships[i].status]_vars

\* The response of this step, if the step is the end of a request
C26Responds(endpoints) ==
    /\ ~IsNone(social_response')
    /\ IsNone(social_response) \/ Val(social_response').rid # Val(social_response).rid
    /\ Val(social_response').endpoint \in endpoints

C26By(i, endpoint, callers) ==
    /\ C26Responds({endpoint})
    /\ Val(social_response').status_code = 200
    /\ Val(social_response').target = i
    /\ Val(social_response').user \in callers
    /\ partnerships[i].status = "pending"

C26Rejected(status_code) ==
    /\ C26Responds({"accept_partnership", "decline_partnership"})
    /\ Val(social_response').status_code = status_code

C26Target == partnerships[Val(social_response').target]

C27Invitees(rows, codes, code) == {rows[i].invitee_id : i \in {j \in 1..Len(rows) : codes[j] = code}}

\* C27: whatever the interleaving of use_invite_code requests by different
\* users, at most one of them gets a partnership from an invite code (max_uses
\* is 1) and its use_count never
\* exceeds max_uses; a request that is rejected (own code, expired code,
\* fully used code) creates no partnership and leaves use_count alone.
C27_InviteCodeSingleUse ==
    [][/\ \A i \in 1..Len(invite_codes') :
             /\ Cardinality(C27Invitees(partnerships', created_from', invite_codes'[i].code))
                    <= invite_codes'[i].max_uses
             /\ invite_codes'[i].use_count <= invite_codes'[i].max_uses
       /\ (C26Responds({"use_invite_code"}) /\ Val(social_response').status_code # 200) =>
             /\ partnerships' = partnerships
             /\ invite_codes' = invite_codes]_vars

\* ------------------------------------------------------------------------
\* Properties of activate_plan and deactivate_plan
\* ------------------------------------------------------------------------
C28Active(table, user_id) == {i \in 1..Len(table) : table[i].user_id = user_id /\ table[i].is_active}

C28AtMostOne == \A user_id \in PlanUsers : Cardinality(C28Active(user_training_plans, user_id)) <= 1

C28Step ==
    LET r == Val(plan_response')
        others == PlanUsers \ {r.user}
    IN  /\ \A user_id \in others :
              C28Active(user_training_plans', user_id) = C28Active(user_training_plans, user_id)
        /\ (r.endpoint = "activate_plan" /\ r.status_code = 200) =>
              /\ Len(user_training_plans') = Len(user_training_plans) + 1
              /\ C28Active(user_training_plans', r.user) = {Len(user_training_plans')}
              /\ r.plan_id = Some(Len(user_training_plans'))
        /\ r.endpoint = "deactivate_plan" =>
              C28Active(user_training_plans', r.user) = {}
        /\ (r.endpoint = "activate_plan" /\ r.status_code # 200) =>
              /\ r.status_code = 404
              /\ user_training_plans' = user_training_plans

\* C28: after any sequence of activate_plan and deactivate_plan requests
\* that do not overlap, at most one plan of a user is active: a successful
\* activate_plan leaves exactly the new plan active, deactivate_plan leaves
\* none active, and an activate_plan with an unknown template leaves the
\* table, and so the active plan, as it was.
C28_OneActivePlan == []C28AtMostOne /\ [][C28Step]_vars

\* ana replaced the plan of her onboarding by a new plan, and then an
\* activation with an unknown template failed and left that plan active.
C28_Witness ==
    /\ Len(user_training_plans) = 2
    /\ user_training_plans[1] = [OnboardingPlan("ana") EXCEPT !.is_active = FALSE]
    /\ user_training_plans[2] =
           [user_id |-> "ana", template_id |-> "upper_lower_4_day", is_active |-> TRUE]
    /\ plan_requests = 2
    /\ Val(plan_response).status_code = 404
    /\ Val(plan_response).user = "ana"

\* ------------------------------------------------------------------------
\* Properties of the personal records
\* ------------------------------------------------------------------------
C29Types == {"1rm", "3rm", "5rm", "10rm"}

C29TypeOf(reps) == CASE reps = 1 -> "1rm" [] reps = 3 -> "3rm" [] reps = 5 -> "5rm" [] reps = 10 -> "10rm" [] OTHER -> "none"

C29Rows(table, user_id, exercise_id, record_type) ==
    {i \in 1..Len(table) : /\ table[i].user_id = user_id
                           /\ table[i].exercise_id = exercise_id
                           /\ table[i].record_type = record_type}

\* The weights that count for the key before set k of the call: the value
\* stored before the call and the earlier sets of the call that are no warm-ups
C29Before(call, k, exercise_id, record_type) ==
    {personal_records[i].value : i \in C29Rows(personal_records, call.user_id, exercise_id, record_type)}
    \cup {call.sets[j].weight_kg : j \in {n \in 1..(k - 1) :
                                           /\ ~call.sets[n].is_warmup
                                           /\ call.sets[n].exercise_id = exercise_id
                                           /\ C29TypeOf(call.sets[n].reps) = record_type}}

C29Max(weights) == CHOOSE w \in weights : \A v \in weights : RLe(v, w)

C29Step ==
    LET call == Val(log_call') IN
    /\ \A i \in 1..Len(personal_records) :
          /\ RLe(personal_records[i].value, personal_records'[i].value)
          /\ personal_records'[i].user_id = personal_records[i].user_id
          /\ personal_records'[i].exercise_id = personal_records[i].exercise_id
          /\ personal_records'[i].record_type = personal_records[i].record_type
    /\ \A k \in 1..Len(call.sets) :
          LET st == call.sets[k]
              before == C29Before(call, k, st.exercise_id, C29TypeOf(st.reps))
          IN  call.created_sets[k].is_pr <=>
                  /\ ~st.is_warmup
                  /\ st.reps \in {1, 3, 5, 10}
                  /\ before = {} \/ RLt(C29Max(before), st.weight_kg)
    /\ \A exercise_id \in {"squat", "bench"}, record_type \in C29Types :
          LET counted == C29Before(call, Len(call.sets) + 1, exercise_id, record_type)
              rows == C29Rows(personal_records', call.user_id, exercise_id, record_type)
              was == C29Rows(personal_records, call.user_id, exercise_id, record_type)
          IN  /\ rows = {} <=> counted = {}
              /\ \A i \in rows :
                    /\ personal_records'[i].value = C29Max(counted)
                    /\ i \in was /\ personal_records'[i].value # personal_records[i].value =>
                           /\ ~IsNone(personal_records'[i].previous_value)
                           /\ RLe(personal_records[i].value, Val(personal_records'[i].previous_value))
                           /\ RLt(Val(personal_records'[i].previous_value), personal_records'[i].value)
    /\ (\A k \in 1..Len(call.sets) : call.sets[k].is_warmup) =>
          personal_records' = personal_records

C29OneRecordPerKey ==
    \A i, j \in 1..Len(personal_records) :
        (/\ personal_records[i].user_id = personal_records[j].user_id
         /\ personal_records[i].exercise_id = personal_records[j].exercise_id
         /\ personal_records[i].record_type = personal_records[j].record_type) => i = j

\* C29: over any sequence of log_sets calls the stored value of a personal
\* record never decreases and there is at most one record per (user,
\* exercise, record type); a set is flagged is_pr exactly when it is no
\* warm-up, has 1, 3, 5 or 10 reps and there is no record for its key or its
\* weight is strictly above the stored value, previous_value then holding
\* the old value; warm-up sets never create or change a record.
C29_RecordsOnlyRise == []C29OneRecordPerKey /\ [][C29Step]_vars

\* ana's 5rm on the squat went from 60 kg to 81.25 kg in a call whose first
\* set, at 80 kg, was a record too; ben has no record.
C29_Witness ==
    /\ log_calls = 2
    /\ Len(personal_records) = 1
    /\ personal_records[1] =
           [user_id |-> "ana", exercise_id |-> "squat", record_type |-> "5rm",
            value |-> Rat(1625, 2), previous_value |-> Some(I(80))]
    /\ Len(Val(log_call).created_sets) = 2
    /\ Val(log_call).created_sets[1].is_pr
    /\ Val(log_call).created_sets[2].is_pr

\* ------------------------------------------------------------------------
\* Priorities of the recommendations
\* ------------------------------------------------------------------------
C30Recs == response.recommendations

C30IsCelebration(r) == r.id[1] = "pr"

C30Others == SelectSeq(C30Recs, LAMBDA r : ~C30IsCelebration(r))

C30RuleOrder == <<"sleep", "recovery", "workout", "nutrition", "progress">>

C30Position(rule) == CHOOSE n \in 1..Len(C30RuleOrder) : C30RuleOrder[n] = rule

C30FiredOthers == {C17Rules[n].rule : n \in {x \in 1..5 : C17Rules[x].fired}}

C30Returned == {C30Recs[i].id[1] : i \in 1..Len(C30Recs)}

\* C30: in the returned list the priorities are strictly increasing; the
\* recommendations other than the PR celebration carry priorities 1..k in
\* the rule order sleep, recovery, workout, nutrition, volume drop; the PR
\* celebration has priority 100 and is last; it is cut by the truncation to
\* 5 exactly when the five other rules all fired, and no other
\* recommendation is ever cut.
C30_PrioritiesInRuleOrder ==
    DashboardResponded =>
        /\ \A i \in 1..Len(C30Recs) : \A j \in (i + 1)..Len(C30Recs) :
              C30Recs[i].priority < C30Recs[j].priority
        /\ \A i \in 1..Len(C30Others) :
              /\ C30Others[i].priority = i
              /\ C30Recs[i] = C30Others[i]
              /\ \A j \in (i + 1)..Len(C30Others) :
                    C30Position(C30Others[i].id[1]) < C30Position(C30Others[j].id[1])
        /\ \A i \in 1..Len(C30Recs) :
              C30IsCelebration(C30Recs[i]) => i = Len(C30Recs) /\ C30Recs[i].priority = 100
        /\ C30FiredOthers \subseteq C30Returned
        /\ C17Rules[6].fired =>
              ("pr" \notin C30Returned <=> C30FiredOthers = {C30RuleOrder[n] : n \in 1..5})
        /\ ~C17Rules[6].fired => "pr" \notin C30Returned

\* Four of the five other rules fired, the sleep rule did not, and the PR
\* celebration is the fifth recommendation.
C30_Witness ==
    /\ DashboardResponded
    /\ Len(C30Recs) = 5
    /\ C30Recs[1].id = <<"recovery", 1>>
    /\ C30Recs[4].id = <<"progress", 4>>
    /\ C30Recs[5].id = <<"pr", 5>>
    /\ C30Recs[5].priority = 100

====
